---- MODULE Spec2Model ----
(***************************************************************************)
(* Model of the variational-Bayes core of CDR (src/cdr/cdrnnbayes.py,      *)
(* class CDRNNBayes): the parameter builders, the output model, the        *)
(* objective assembler and the training / inference driver.                *)
(*                                                                         *)
(* Numbers.  Standard deviations handed to the builders are fixed-point    *)
(* integers in units of 1/SdUnit; the two ratios (posterior_to_prior and   *)
(* ranef_to_fixef) are integer multipliers, so every product of the code   *)
(* is exact.  Per-example losses and the loss EMAs are fixed-point         *)
(* integers in units of 1/LossUnit; a division of the code is a floor      *)
(* division.                                                               *)
(***************************************************************************)
EXTENDS Integers, Sequences, FiniteSets, TLC

VARIABLES
    cfg,                \* hyperparameters (the _INITIALIZATION_KWARGS and data statistics)
    phase,              \* "build" while the graph is under construction, "ready" once
                        \* initialize_objective has completed
    params,             \* the latent parameters created so far, in creation order
    kl_penalties,       \* self.kl_penalties
    regularizer_losses, \* self.regularizer_losses
    graph,              \* the tensors and ops initialize_objective leaves on the model
    q_shift,            \* how far the optimizer has moved the posterior locations
    delta_ema,          \* y_sd_delta_ema, y_skewness_delta_ema, y_tailweight_delta_ema
    loss_ema,           \* tf.Variable loss_ema
    loss_sd_ema,        \* tf.Variable loss_sd_ema
    global_batch_step,  \* the global step counter
    run                 \* what the last call of the driver did and returned

vars == <<cfg, phase, params, kl_penalties, regularizer_losses, graph, q_shift,
          delta_ema, loss_ema, loss_sd_ema, global_batch_step, run>>

----------------------------------------------------------------------------
(* Bounds of the model *)

\* most builder calls in one construction
MaxParams == 2
\* most train steps in one behaviour
MaxSteps == 4
\* farthest the optimizer moves a posterior location
MaxShift == 1
\* most train steps between the queries of the driver specification
MaxDriverSteps == 1
\* layers a model has at most
MaxLayers == 2

----------------------------------------------------------------------------
(* Arithmetic helpers *)

SdUnit == 1000
LossUnit == 64

None == "None"

RECURSIVE ISqrtIter(_, _, _)
ISqrtIter(n, lo, hi) ==
    IF lo >= hi THEN lo
    ELSE LET mid == (lo + hi + 1) \div 2
         IN  IF mid * mid <= n THEN ISqrtIter(n, mid, hi)
                               ELSE ISqrtIter(n, lo, mid - 1)

\* floor of the square root (math.sqrt / tf.sqrt on fixed-point numbers)
ISqrt(n) == ISqrtIter(n, 0, 46340)

RECURSIVE SumSeq(_)
SumSeq(s) == IF s = <<>> THEN 0 ELSE Head(s) + SumSeq(Tail(s))

\* a prior-sd hyperparameter: a number, or one of the heuristic keywords
Numeric(v) == [kw |-> "numeric", val |-> v]
Keyword(k) == [kw |-> k, val |-> 0]

\* The heuristic-scale resolution every builder repeats:
\*   if isinstance(sd, str): xavier/glorot -> sqrt(2 / (units + 1)), he -> sqrt(2 / units)
resolve_sd_prior(sd, units) ==
    IF sd.kw # "numeric"
    THEN IF sd.kw \in {"xavier", "glorot"}
         THEN ISqrt((2 * SdUnit * SdUnit) \div (units + 1))
         ELSE ISqrt((2 * SdUnit * SdUnit) \div units)
    ELSE sd.val

----------------------------------------------------------------------------
(* Model metadata *)

\* the registered grouping factors and their numbers of observed levels
rangf == <<"subject", "item">>
rangf_n_levels == <<3, 2>>

RangfSet == {rangf[i] : i \in DOMAIN rangf}

\* a lookup that falls back to the first grouping factor
rangf_index_default(ran_gf) ==
    IF ran_gf \in RangfSet
    THEN CHOOSE i \in DOMAIN rangf : rangf[i] = ran_gf
    ELSE 1

\* self.rangf.index(ran_gf): the position of ran_gf, or ValueError (0) when
\* the list does not hold it
rangf_index(ran_gf) ==
    IF ran_gf \in RangfSet
    THEN CHOOSE i \in DOMAIN rangf : rangf[i] = ran_gf
    ELSE 0

\* layer widths: len(impulse_names) + 1, n_units_rnn[l], n_units_hidden_state,
\* n_units_t_delta_embedding
Units(kind) ==
    CASE kind = "coefficient" -> 3
      [] kind \in {"rnn_h", "rnn_c"} -> 2
      [] kind = "h_bias" -> 2
      [] OTHER -> 1

\* _initialize_metadata: the defaults of intercept_init, intercept_prior_sd and
\* y_sd_prior_sd, resolved from the response statistics
initialize_metadata(c) ==
    [c EXCEPT
        !.intercept_init =
            IF c.standardize_response THEN 0 ELSE c.y_train_mean,
        !.intercept_prior_sd =
            IF c.standardize_response THEN c.prior_sd_scaling_coefficient
            ELSE c.y_train_sd * c.prior_sd_scaling_coefficient,
        !.y_sd_prior_sd =
            IF c.standardize_response THEN c.y_sd_prior_sd_scaling_coefficient
            ELSE c.y_train_sd * c.y_sd_prior_sd_scaling_coefficient]

intercept_prior_sd_tf == cfg.intercept_prior_sd
intercept_posterior_sd_init == intercept_prior_sd_tf * cfg.posterior_to_prior_sd_ratio
intercept_ranef_prior_sd_tf == intercept_prior_sd_tf * cfg.ranef_to_fixef_prior_sd_ratio
intercept_ranef_posterior_sd_init ==
    intercept_posterior_sd_init * cfg.ranef_to_fixef_prior_sd_ratio

y_sd_prior_sd_tf == cfg.y_sd_prior_sd
y_sd_posterior_sd_init == y_sd_prior_sd_tf * cfg.posterior_to_prior_sd_ratio
y_skewness_prior_sd_tf == cfg.y_skewness_prior_sd
y_skewness_posterior_sd_init == y_skewness_prior_sd_tf * cfg.posterior_to_prior_sd_ratio
y_tailweight_prior_sd_tf == cfg.y_tailweight_prior_sd
y_tailweight_posterior_sd_init == y_tailweight_prior_sd_tf * cfg.posterior_to_prior_sd_ratio

----------------------------------------------------------------------------
(* Distribution pair: one latent parameter *)

\* a selector that branches on the training flag instead of the shared one
SelectorFlag_training(kind) ==
    IF kind = "y_sd" THEN "not_training" ELSE "use_MAP_mode"

\* The tensor a parameter's value selector branches on:
\*   tf.cond(self.use_MAP_mode, q_dist.mean, q_dist.sample)
SelectorFlag(kind) == "use_MAP_mode"

\* The raw scale variable: fill * constraint_fn_inv(sd), where fill is the
\* tf.ones / tf.zeros tensor (1 / 0) the code multiplies by, or 1 for a scalar.
RawScale(fill, sd) == [fill |-> fill, sd |-> sd]

NoPrior == <<>>
Prior(loc, scale) == <<[loc |-> loc, scale |-> scale]>>

\* One parameter: its posterior q (location and raw scale variables), the
\* flag its value selector reads, and its prior when one is declared.
LatentParameter(kind, ran_gf, dim, q_loc, q_scale, prior) ==
    [kind |-> kind, ran_gf |-> ran_gf, dim |-> dim, units |-> Units(kind),
     q_loc |-> q_loc, q_scale |-> q_scale, flag |-> SelectorFlag(kind),
     prior |-> prior]

\* q_dist.kl_divergence(prior_dist): the tensor is named by its parameter; its
\* element values are computed when the graph runs (KLElements).
kl_divergence(p) == [scope |-> "model", kind |-> p.kind, ran_gf |-> p.ran_gf,
                     n |-> p.dim * p.units, prior |-> p.prior[1]]

PriorsDeclared(ran_gf) ==
    IF ran_gf = None THEN cfg.declare_priors_fixef ELSE cfg.declare_priors_ranef

----------------------------------------------------------------------------
(* Parameter initializer suite *)

\* a builder whose random-effect branch reads the fixed-effect toggle
intercept_param_fixef_toggle(ran_gf) ==
    IF ran_gf = None
    THEN LatentParameter("intercept", None, 1, cfg.intercept_init,
            RawScale(1, intercept_posterior_sd_init),
            IF cfg.declare_priors_fixef
            THEN Prior(cfg.intercept_init, intercept_prior_sd_tf) ELSE NoPrior)
    ELSE LET n == rangf_n_levels[rangf_index(ran_gf)] - 1 IN
         LatentParameter("intercept", ran_gf, n, 0,
            RawScale(1, intercept_ranef_posterior_sd_init
                            * cfg.ranef_to_fixef_prior_sd_ratio),
            IF cfg.declare_priors_fixef
            THEN Prior(0, intercept_prior_sd_tf * cfg.ranef_to_fixef_prior_sd_ratio)
            ELSE NoPrior)

intercept_param(ran_gf) ==
    IF ran_gf = None
    THEN LatentParameter("intercept", None, 1, cfg.intercept_init,
            RawScale(1, intercept_posterior_sd_init),
            IF cfg.declare_priors_fixef
            THEN Prior(cfg.intercept_init, intercept_prior_sd_tf) ELSE NoPrior)
    ELSE LET n == rangf_n_levels[rangf_index(ran_gf)] - 1 IN
         LatentParameter("intercept", ran_gf, n, 0,
            RawScale(1, intercept_ranef_posterior_sd_init
                            * cfg.ranef_to_fixef_prior_sd_ratio),
            IF cfg.declare_priors_ranef
            THEN Prior(0, intercept_prior_sd_tf * cfg.ranef_to_fixef_prior_sd_ratio)
            ELSE NoPrior)

\* a coefficient builder that sizes the random effect by all observed levels
coefficient_param_all_levels(ran_gf) ==
    LET units == Units("coefficient")
        coefficient_sd_prior == resolve_sd_prior(cfg.weight_prior_sd, units)
        coefficient_sd_posterior ==
            coefficient_sd_prior * cfg.posterior_to_prior_sd_ratio
    IN  IF ran_gf = None
        THEN LatentParameter("coefficient", None, 1, 0,
                RawScale(1, coefficient_sd_posterior),
                IF cfg.declare_priors_fixef
                THEN Prior(0, coefficient_sd_prior) ELSE NoPrior)
        ELSE LET n == rangf_n_levels[rangf_index(ran_gf)] IN
             LatentParameter("coefficient", ran_gf, n, 0,
                RawScale(1, coefficient_sd_posterior
                                * cfg.ranef_to_fixef_prior_sd_ratio),
                IF cfg.declare_priors_ranef
                THEN Prior(0, coefficient_sd_prior * cfg.ranef_to_fixef_prior_sd_ratio)
                ELSE NoPrior)

coefficient_param(ran_gf) ==
    LET units == Units("coefficient")
        coefficient_sd_prior == resolve_sd_prior(cfg.weight_prior_sd, units)
        coefficient_sd_posterior ==
            coefficient_sd_prior * cfg.posterior_to_prior_sd_ratio
    IN  IF ran_gf = None
        THEN LatentParameter("coefficient", None, 1, 0,
                RawScale(1, coefficient_sd_posterior),
                IF cfg.declare_priors_fixef
                THEN Prior(0, coefficient_sd_prior) ELSE NoPrior)
        ELSE LET n == rangf_n_levels[rangf_index(ran_gf)] - 1 IN
             LatentParameter("coefficient", ran_gf, n, 0,
                RawScale(1, coefficient_sd_posterior
                                * cfg.ranef_to_fixef_prior_sd_ratio),
                IF cfg.declare_priors_ranef
                THEN Prior(0, coefficient_sd_prior * cfg.ranef_to_fixef_prior_sd_ratio)
                ELSE NoPrior)

rnn_h_param(ran_gf) ==
    LET units == Units("rnn_h")
        rnn_h_sd_prior == resolve_sd_prior(cfg.bias_prior_sd, units)
        rnn_h_sd_posterior == rnn_h_sd_prior * cfg.posterior_to_prior_sd_ratio
    IN  IF ran_gf = None
        THEN LatentParameter("rnn_h", None, 1, 0,
                RawScale(1, rnn_h_sd_posterior),
                IF cfg.declare_priors_fixef
                THEN Prior(0, rnn_h_sd_prior) ELSE NoPrior)
        ELSE LET n == rangf_n_levels[rangf_index(ran_gf)] - 1 IN
             LatentParameter("rnn_h", ran_gf, n, 0,
                RawScale(1, rnn_h_sd_posterior * cfg.ranef_to_fixef_prior_sd_ratio),
                IF cfg.declare_priors_ranef
                THEN Prior(0, rnn_h_sd_prior * cfg.ranef_to_fixef_prior_sd_ratio)
                ELSE NoPrior)

rnn_c_param(ran_gf) ==
    LET units == Units("rnn_c")
        rnn_c_sd_prior == resolve_sd_prior(cfg.bias_prior_sd, units)
        rnn_c_sd_posterior == rnn_c_sd_prior * cfg.posterior_to_prior_sd_ratio
    IN  IF ran_gf = None
        THEN LatentParameter("rnn_c", None, 1, 0,
                RawScale(1, rnn_c_sd_posterior),
                IF cfg.declare_priors_fixef
                THEN Prior(0, rnn_c_sd_prior) ELSE NoPrior)
        ELSE LET n == rangf_n_levels[rangf_index(ran_gf)] - 1 IN
             LatentParameter("rnn_c", ran_gf, n, 0,
                RawScale(1, rnn_c_sd_posterior * cfg.ranef_to_fixef_prior_sd_ratio),
                IF cfg.declare_priors_ranef
                THEN Prior(0, rnn_c_sd_prior * cfg.ranef_to_fixef_prior_sd_ratio)
                ELSE NoPrior)

\* the random-effect prior scale is h_bias_sd_prior * h_bias_sd_prior (line 571)
h_bias_param(ran_gf) ==
    LET units == Units("h_bias")
        h_bias_sd_prior == resolve_sd_prior(cfg.bias_prior_sd, units)
        h_bias_sd_posterior == h_bias_sd_prior * cfg.posterior_to_prior_sd_ratio
    IN  IF ran_gf = None
        THEN LatentParameter("h_bias", None, 1, 0,
                RawScale(1, h_bias_sd_posterior),
                IF cfg.declare_priors_fixef
                THEN Prior(0, h_bias_sd_prior) ELSE NoPrior)
        ELSE LET n == rangf_n_levels[rangf_index(ran_gf)] - 1 IN
             LatentParameter("h_bias", ran_gf, n, 0,
                RawScale(1, h_bias_sd_posterior * cfg.ranef_to_fixef_prior_sd_ratio),
                IF cfg.declare_priors_ranef
                THEN Prior(0, (h_bias_sd_prior * h_bias_sd_prior) \div SdUnit)
                ELSE NoPrior)

\* the fixed-effect raw scale is tf.zeros(...) * constraint_fn_inv(...) (line 601)
irf_l1_W_bias_param(ran_gf) ==
    LET units == Units("irf_l1_W_bias")
        irf_l1_W_bias_sd_prior == resolve_sd_prior(cfg.weight_prior_sd, units)
        irf_l1_W_bias_sd_posterior ==
            irf_l1_W_bias_sd_prior * cfg.posterior_to_prior_sd_ratio
    IN  IF ran_gf = None
        THEN LatentParameter("irf_l1_W_bias", None, 1, 0,
                RawScale(0, irf_l1_W_bias_sd_posterior),
                IF cfg.declare_priors_fixef
                THEN Prior(0, irf_l1_W_bias_sd_prior) ELSE NoPrior)
        ELSE LET n == rangf_n_levels[rangf_index(ran_gf)] - 1 IN
             LatentParameter("irf_l1_W_bias", ran_gf, n, 0,
                RawScale(1, irf_l1_W_bias_sd_posterior
                                * cfg.ranef_to_fixef_prior_sd_ratio),
                IF cfg.declare_priors_ranef
                THEN Prior(0, irf_l1_W_bias_sd_prior * cfg.ranef_to_fixef_prior_sd_ratio)
                ELSE NoPrior)

\* the fixed-effect raw scale is tf.zeros(...) * constraint_fn_inv(...) (line 675)
irf_l1_b_bias_param(ran_gf) ==
    LET units == Units("irf_l1_b_bias")
        irf_l1_b_bias_sd_prior == resolve_sd_prior(cfg.bias_prior_sd, units)
        irf_l1_b_bias_sd_posterior ==
            irf_l1_b_bias_sd_prior * cfg.posterior_to_prior_sd_ratio
    IN  IF ran_gf = None
        THEN LatentParameter("irf_l1_b_bias", None, 1, 0,
                RawScale(0, irf_l1_b_bias_sd_posterior),
                IF cfg.declare_priors_fixef
                THEN Prior(0, irf_l1_b_bias_sd_prior) ELSE NoPrior)
        ELSE LET n == rangf_n_levels[rangf_index(ran_gf)] - 1 IN
             LatentParameter("irf_l1_b_bias", ran_gf, n, 0,
                RawScale(1, irf_l1_b_bias_sd_posterior
                                * cfg.ranef_to_fixef_prior_sd_ratio),
                IF cfg.declare_priors_ranef
                THEN Prior(0, irf_l1_b_bias_sd_prior * cfg.ranef_to_fixef_prior_sd_ratio)
                ELSE NoPrior)

\* every builder ends the same way: the new posterior joins the graph and, when
\* a prior was declared, its KL tensor is appended to self.kl_penalties
AddParams(ps, made) == ps \o made
AddPenalties(kl, made) ==
    kl \o [i \in 1..Len(SelectSeq(made, LAMBDA p : p.prior # NoPrior)) |->
              kl_divergence(SelectSeq(made, LAMBDA p : p.prior # NoPrior)[i])]

----------------------------------------------------------------------------
(* Hyperparameters *)

DefaultKwargs ==
    [standardize_response |-> FALSE, asymmetric_error |-> FALSE,
     y_sd_trainable |-> TRUE,
     declare_priors_fixef |-> TRUE, declare_priors_ranef |-> TRUE,
     weight_prior_sd |-> Numeric(500), bias_prior_sd |-> Numeric(2000),
     posterior_to_prior_sd_ratio |-> 2, ranef_to_fixef_prior_sd_ratio |-> 2,
     prior_sd_scaling_coefficient |-> 1000,
     y_sd_prior_sd_scaling_coefficient |-> 1000,
     intercept_init |-> 0, intercept_prior_sd |-> 0, y_sd_prior_sd |-> 0,
     y_skewness_prior_sd |-> 1000, y_tailweight_prior_sd |-> 1000,
     y_train_mean |-> 3, y_train_sd |-> 2,
     y_sd_init |-> 2, y_sd_init_unconstrained |-> 1,
     loss_filter_n_sds |-> 0, ema_decay |-> [set |-> TRUE, num |-> 1, den |-> 4],
     scale_loss_with_data |-> FALSE, minibatch_scale |-> 2,
     regularizable_layers |-> <<>>,
     n_layers_rnn |-> 1, optim_name |-> "Adam"]

\* the hyperparameters the builders read
BuilderKwargs ==
    {[DefaultKwargs EXCEPT
        !.declare_priors_fixef = df, !.declare_priors_ranef = dr,
        !.weight_prior_sd = w, !.bias_prior_sd = b,
        !.posterior_to_prior_sd_ratio = pq,
        !.ranef_to_fixef_prior_sd_ratio = rf,
        !.standardize_response = st] :
        df \in BOOLEAN, dr \in BOOLEAN,
        w \in {Numeric(500), Keyword("xavier")},
        b \in {Numeric(2000), Keyword("he")},
        pq \in {1, 2}, rf \in {1, 2}, st \in BOOLEAN}

NoGraph == [built |-> FALSE, has_filter |-> FALSE, train_op |-> FALSE,
            selectors |-> {}, kl_terms |-> <<>>, layers |-> <<>>,
            output |-> <<>>]

NoObjective ==
    [losses |-> <<>>, filtering |-> FALSE, loss_cutoff |-> 0, loss_func |-> <<>>,
     n_batch |-> 0, n_retained |-> 0, n_dropped |-> 0,
     loss_mean_cur |-> 0, loss_sd_cur |-> 0,
     loss_ema_update |-> 0, loss_sd_ema_update |-> 0,
     lik |-> 0, lp_loss |-> 0, kl_values |-> <<>>, kl_loss |-> 0,
     reg_loss |-> 0, loss |-> 0]

NoFeed == [training |-> "unset", use_MAP_mode |-> "unset"]

NoData == [x |-> 0, y |-> 0]

NoRun ==
    [op |-> "none", error |-> FALSE, ran_gf |-> None, feed |-> NoFeed,
     data |-> NoData,
     standardize_response |-> FALSE, algorithm |-> "MAP",
     use_MAP_mode |-> TRUE, noise |-> 0, decision |-> <<>>, summary |-> <<>>,
     net |-> 0, value |-> 0, batch |-> <<>>, obj |-> NoObjective]

\* the session state before the first sess.run
FreshSession ==
    /\ q_shift = 0
    /\ delta_ema = [k \in {"y_sd", "y_skewness", "y_tailweight"} |-> 0]
    /\ loss_ema = 0
    /\ loss_sd_ema = 0
    /\ global_batch_step = 0
    /\ run = NoRun

trained == <<q_shift, delta_ema, loss_ema, loss_sd_ema, global_batch_step>>

session == <<trained, run>>

----------------------------------------------------------------------------
(* Builder calls *)

Building == phase = "build" /\ Len(params) < MaxParams

\* the call the builder was entered with
BuilderCall(op, ran_gf) == [NoRun EXCEPT !.op = op, !.ran_gf = ran_gf]

\* the else branch of a builder starts with
\*   rangf_n_levels = self.rangf_n_levels[self.rangf.index(ran_gf)] - 1
\* and list.index raises ValueError for a value the list does not hold
LookupRaises(ran_gf) == ran_gf # None /\ rangf_index(ran_gf) = 0

\* the exception leaves the builder before a variable is created and ends the
\* construction of the model
Raised(op, ran_gf) ==
    /\ run' = [BuilderCall(op, ran_gf) EXCEPT !.error = TRUE]
    /\ phase' = "error"
    /\ UNCHANGED <<cfg, params, kl_penalties, regularizer_losses, graph, trained>>

Built(op, ran_gf, made) ==
    /\ run' = BuilderCall(op, ran_gf)
    /\ params' = AddParams(params, made)
    /\ kl_penalties' = AddPenalties(kl_penalties, made)
    /\ UNCHANGED <<cfg, phase, regularizer_losses, graph, trained>>

initialize_intercept(ran_gf) ==
    /\ Building
    /\ IF LookupRaises(ran_gf) THEN Raised("initialize_intercept", ran_gf)
       ELSE Built("initialize_intercept", ran_gf, <<intercept_param(ran_gf)>>)

initialize_coefficient(ran_gf) ==
    /\ Building
    /\ IF LookupRaises(ran_gf) THEN Raised("initialize_coefficient", ran_gf)
       ELSE Built("initialize_coefficient", ran_gf, <<coefficient_param(ran_gf)>>)

initialize_rnn_h(ran_gf) ==
    /\ Building
    /\ IF LookupRaises(ran_gf) THEN Raised("initialize_rnn_h", ran_gf)
       ELSE Built("initialize_rnn_h", ran_gf, <<rnn_h_param(ran_gf)>>)

initialize_rnn_c(ran_gf) ==
    /\ Building
    /\ IF LookupRaises(ran_gf) THEN Raised("initialize_rnn_c", ran_gf)
       ELSE Built("initialize_rnn_c", ran_gf, <<rnn_c_param(ran_gf)>>)

initialize_h_bias(ran_gf) ==
    /\ Building
    /\ IF LookupRaises(ran_gf) THEN Raised("initialize_h_bias", ran_gf)
       ELSE Built("initialize_h_bias", ran_gf, <<h_bias_param(ran_gf)>>)

\* the W bias is built first, so a failing lookup (line 625) raises before
\* either bias has a variable
initialize_irf_l1_biases(ran_gf) ==
    /\ Building
    /\ IF LookupRaises(ran_gf) THEN Raised("initialize_irf_l1_biases", ran_gf)
       ELSE Built("initialize_irf_l1_biases", ran_gf,
                  <<irf_l1_W_bias_param(ran_gf), irf_l1_b_bias_param(ran_gf)>>)

\* what a caller may pass as ran_gf: None, a registered grouping factor, or a
\* name the model does not know
GroupArgs == {None} \cup RangfSet \cup {"region"}

----------------------------------------------------------------------------
(* Layer factories *)

\* the KL tensors of a layer's weights
LayerKL(name, weights) ==
    [i \in DOMAIN weights |->
        [scope |-> name, kind |-> weights[i], ran_gf |-> None,
         n |-> IF weights[i] = "bias" THEN 1 ELSE 2,
         prior |-> [loc |-> 0,
                    scale |-> resolve_sd_prior(
                        IF weights[i] = "bias" THEN cfg.bias_prior_sd
                        ELSE cfg.weight_prior_sd, 2)]]]

\* a Bayesian layer object: its own kl_penalties list, and the KL tensors it
\* registers there only when the layer is built on its first call.  eager says
\* whether the constructor already registers them.
BayesLayer(class, name, weights, eager) ==
    [class |-> class, name |-> name,
     kl_penalties |-> IF eager THEN LayerKL(name, weights) ELSE <<>>,
     pending |-> IF eager THEN <<>> ELSE LayerKL(name, weights)]

DenseLayerBayes(name, eager) ==
    BayesLayer("DenseLayerBayes", name, <<"kernel", "bias">>, eager)

CDRNNLayerBayes(name, eager) ==
    BayesLayer("CDRNNLayerBayes", name, <<"kernel", "recurrent_kernel", "bias">>,
               eager)

\* an assignment that rebinds the list instead of extending it
list_rebind(list, other) == other

\* list += other: the elements other holds now are appended to list, in
\* place; list and other stay two objects
list_iadd(list, other) == list \o other

LayerNames == {graph.layers[i].name : i \in DOMAIN graph.layers}

LayerMade(layer) ==
    /\ kl_penalties' = list_iadd(kl_penalties, layer.kl_penalties)
    /\ graph' = [graph EXCEPT !.layers = Append(@, layer)]
    /\ run' = [NoRun EXCEPT !.op = IF layer.class = "DenseLayerBayes"
                                   THEN "initialize_feedforward"
                                   ELSE "initialize_rnn"]
    /\ UNCHANGED <<cfg, phase, params, regularizer_losses, trained>>

initialize_feedforward(name, eager) ==
    /\ phase = "build" /\ Len(graph.layers) < MaxLayers
    /\ name \notin LayerNames
    /\ LayerMade(DenseLayerBayes(name, eager))

\* name='rnn_l%d' % (l + 1)
initialize_rnn(l, eager) ==
    LET name == IF l = 0 THEN "rnn_l1" ELSE "rnn_l2" IN
    /\ phase = "build" /\ Len(graph.layers) < MaxLayers
    /\ name \notin LayerNames
    /\ LayerMade(CDRNNLayerBayes(name, eager))

\* the first call of a layer builds it: the layer registers the KL tensors it
\* has not registered yet in its own list
layer_build(i) ==
    /\ phase = "build"
    /\ i \in DOMAIN graph.layers
    /\ graph.layers[i].pending # <<>>
    /\ graph' = [graph EXCEPT
                    !.layers[i].kl_penalties = @ \o graph.layers[i].pending,
                    !.layers[i].pending = <<>>]
    /\ UNCHANGED <<cfg, phase, params, kl_penalties, regularizer_losses, session>>

----------------------------------------------------------------------------
(* Specification of the builder calls *)

InitBuild ==
    /\ cfg \in {initialize_metadata(c) : c \in BuilderKwargs}
    /\ phase = "build"
    /\ params = <<>>
    /\ kl_penalties = <<>>
    /\ regularizer_losses = <<>>
    /\ graph = NoGraph
    /\ FreshSession

NextBuild ==
    \/ \E g \in GroupArgs : initialize_intercept(g)
    \/ \E g \in GroupArgs : initialize_coefficient(g)
    \/ \E g \in GroupArgs : initialize_rnn_h(g)
    \/ \E g \in GroupArgs : initialize_rnn_c(g)
    \/ \E g \in GroupArgs : initialize_h_bias(g)
    \/ \E g \in GroupArgs : initialize_irf_l1_biases(g)

SpecBuild == InitBuild /\ [][NextBuild]_vars

----------------------------------------------------------------------------
(* The graph's inputs: the feed dict and the shared mode flag *)

\* self.training is a placeholder of the base class: False unless it is fed
training_default == FALSE

Training(feed) ==
    IF feed.training = "unset" THEN training_default ELSE feed.training = "T"

\* _initialize_inputs:
\*   use_MAP_mode = tf.placeholder_with_default(tf.logical_not(self.training), ...)
\* a placeholder with a default takes the fed value when the feed dict has one
UseMAPMode(feed) ==
    IF feed.use_MAP_mode = "unset" THEN ~Training(feed) ELSE feed.use_MAP_mode = "T"

\* the value of a boolean tensor in one sess.run
FlagValue(flag, feed) ==
    IF flag = "use_MAP_mode" THEN UseMAPMode(feed) ELSE ~Training(feed)

----------------------------------------------------------------------------
(* Posteriors at run time *)

Name(p) == <<p.kind, p.ran_gf>>

HasParam(kind, ran_gf) ==
    \E i \in DOMAIN params : Name(params[i]) = <<kind, ran_gf>>

ParamOf(kind, ran_gf) ==
    params[CHOOSE i \in DOMAIN params : Name(params[i]) = <<kind, ran_gf>>]

\* q_dist.mean(): the location variable, which the optimizer has moved by q_shift
q_mean(p) == p.q_loc + q_shift

\* q_dist.sample(): a draw, noise away from the mean
q_sample(p, noise) == q_mean(p) + noise

\* tf.cond(self.use_MAP_mode, q_dist.mean, q_dist.sample)
Select(p, feed, noise) ==
    IF FlagValue(p.flag, feed) THEN q_mean(p) ELSE q_sample(p, noise)

\* a value as the code leaves it: arg, or constraint_fn(arg) + epsilon, times mult
Plain(v) == [constrained |-> FALSE, arg |-> v, mult |-> 1]
Constrained(v) == [constrained |-> TRUE, arg |-> v, mult |-> 1]
Times(t, k) == [t EXCEPT !.mult = t.mult * k]

OutputKinds == {"y_sd", "y_skewness", "y_tailweight"}

\* a summary taken from the mode-selected value instead of the posterior mean
summary_value_selected(p, feed, noise) ==
    CASE p.kind = "y_sd" -> Constrained(Select(p, feed, noise) + delta_ema["y_sd"])
      [] p.kind \in {"y_skewness", "y_tailweight"} ->
            Plain(Select(p, feed, noise) + delta_ema[p.kind])
      [] OTHER -> Plain(Select(p, feed, noise))

\* The summary value of a parameter.  The builders: q_dist.mean().  The output
\* model: q_dist.mean() + <kind>_delta_ema, and for y_sd constraint_fn(.) + epsilon
\* on top (lines 756, 768, 801, 824).
summary_value(p, feed, noise) ==
    CASE p.kind = "y_sd" -> Constrained(q_mean(p) + delta_ema["y_sd"])
      [] p.kind \in {"y_skewness", "y_tailweight"} ->
            Plain(q_mean(p) + delta_ema[p.kind])
      [] OTHER -> Plain(q_mean(p))

\* y_sd_delta, y_skewness_delta, y_tailweight_delta: tensors of the base class
\* that depend on the fed batch
y_delta(data) == data.x

\* self.out before the output model: the network's output for the fed batch,
\* the intercept plus what the rest of the network contributes
net_out(feed, data, noise) ==
    Select(ParamOf("intercept", None), feed, noise) + data.x

----------------------------------------------------------------------------
(* Output model *)

Normal(loc, scale) ==
    [family |-> "Normal", loc |-> loc, scale |-> scale,
     skewness |-> 0, tailweight |-> Plain(1)]

SinhArcsinh(loc, scale, skewness, tailweight) ==
    [family |-> "SinhArcsinh", loc |-> loc, scale |-> scale,
     skewness |-> skewness, tailweight |-> tailweight]

\* dist.mean(): the location of a Normal; a skewed distribution's mean moves
\* with its skewness
dist_mean(d) == IF d.family = "Normal" THEN d.loc ELSE d.loc + d.skewness

\* dist.sample()
dist_sample(d, noise) == dist_mean(d) + noise

\* tf.cond(self.use_MAP_mode, dist.mean, dist.sample) at an output node
SelectDist(node, d, feed, noise) ==
    IF FlagValue(SelectorFlag(node), feed) THEN dist_mean(d) ELSE dist_sample(d, noise)

\* dist.log_prob(y), kept as the term it is
log_prob(d, y) == [dist |-> d, at |-> y]

y_sd_param ==
    LatentParameter("y_sd", None, 1, cfg.y_sd_init_unconstrained,
        RawScale(1, y_sd_posterior_sd_init),
        IF cfg.declare_priors_fixef
        THEN Prior(cfg.y_sd_init_unconstrained, y_sd_prior_sd_tf) ELSE NoPrior)

y_skewness_param ==
    LatentParameter("y_skewness", None, 1, 0,
        RawScale(1, y_skewness_posterior_sd_init),
        IF cfg.declare_priors_fixef
        THEN Prior(0, y_skewness_prior_sd_tf) ELSE NoPrior)

y_tailweight_param ==
    LatentParameter("y_tailweight", None, 1, 1,
        RawScale(1, y_tailweight_posterior_sd_init),
        IF cfg.declare_priors_fixef
        THEN Prior(1, y_tailweight_prior_sd_tf) ELSE NoPrior)

\* the parameters _initialize_output_model creates, in creation order
output_model_params ==
    (IF cfg.y_sd_trainable THEN <<y_sd_param>> ELSE <<>>)
    \o (IF cfg.asymmetric_error THEN <<y_skewness_param, y_tailweight_param>>
        ELSE <<>>)

\* the tf.cond nodes _initialize_output_model creates
output_model_selectors ==
    {"out", "err"}
    \cup (IF cfg.standardize_response THEN {"out_standardized"} ELSE {})
    \cup (IF cfg.standardize_response /\ ~cfg.asymmetric_error
          THEN {"err_standardized"} ELSE {})

\* What _initialize_output_model binds, statement by statement.  A node is a
\* distribution, a tf.cond selector, a tensor or a derived diagnostic; reads
\* are the attributes of self the statement evaluates.
Loc(of, affine) == [of |-> of, affine |-> affine]
\* a scale argument that drops the y_train_sd factor
Scale_standardized(base, times_sd) == [base |-> base, times_sd |-> FALSE, fn |-> "none"]

\* scale=<base> or scale=<base> * self.y_train_sd, base a tensor bound earlier
Scale(base, times_sd) == [base |-> base, times_sd |-> times_sd, fn |-> "none"]
\* scale=self.constraint_fn(<raw>) + self.epsilon
ConstrainedScale(raw) == [base |-> raw, times_sd |-> FALSE, fn |-> "constraint_fn"]
NoLoc == Loc("none", FALSE)
NoScale == Scale("none", FALSE)

Node(type, family, loc, scale, skewness, tailweight, from) ==
    [type |-> type, family |-> family, loc |-> loc, scale |-> scale,
     skewness |-> skewness, tailweight |-> tailweight, from |-> from]

NormalNode(loc, scale) == Node("dist", "Normal", loc, scale, "none", "none", "none")
SinhArcsinhNode(loc, scale, summary) ==
    Node("dist", "SinhArcsinh", loc, scale,
         IF summary THEN "y_skewness_summary" ELSE "y_skewness",
         IF summary THEN "y_tailweight_summary" ELSE "y_tailweight", "none")
\* tf.cond(self.use_MAP_mode, dist.mean, dist.sample)
SelectNode(dist) == Node("select", "none", NoLoc, NoScale, "none", "none", dist)
TensorNode == Node("tensor", "none", NoLoc, NoScale, "none", "none", "none")
\* dist.log_prob / dist.quantile / dist.cdf of an attribute of self
DerivedNode(dist) == Node("derived", "none", NoLoc, NoScale, "none", "none", dist)

Stmt(attr, node, reads) == [attr |-> attr, node |-> node, reads |-> reads]

\* lines 784-845
skewness_tailweight_statements ==
    <<Stmt("y_skewness_dist",
           NormalNode(Loc("y_skewness_loc_q", FALSE), ConstrainedScale("y_skewness_scale_q")),
           {}),
      Stmt("y_skewness", SelectNode("y_skewness_dist"), {"y_skewness_dist"}),
      Stmt("y_skewness_summary", TensorNode, {"y_skewness_dist"}),
      Stmt("y_tailweight_dist",
           NormalNode(Loc("y_tailweight_loc_q", FALSE),
                      ConstrainedScale("y_tailweight_scale_q")), {}),
      Stmt("y_tailweight", SelectNode("y_tailweight_dist"), {"y_tailweight_dist"}),
      Stmt("y_tailweight_summary", TensorNode, {"y_tailweight_dist"})>>

\* lines 847-906
asymmetric_standardized_statements ==
    <<Stmt("out_standardized_dist",
           SinhArcsinhNode(Loc("out", FALSE), Scale("y_sd", FALSE), FALSE), {"out"}),
      Stmt("out_standardized", SelectNode("out_standardized_dist"),
           {"out_standardized_dist"}),
      Stmt("err_dist_standardized_dist",
           SinhArcsinhNode(Loc("zero", FALSE), Scale("y_sd", FALSE), FALSE), {}),
      Stmt("err_dist_standardized_summary",
           SinhArcsinhNode(Loc("zero", FALSE), Scale("y_sd_summary", FALSE), TRUE), {}),
      Stmt("out_dist",
           SinhArcsinhNode(Loc("out", TRUE), Scale("y_sd", TRUE), FALSE), {"out"}),
      Stmt("out", SelectNode("out_dist"), {"out_dist"}),
      Stmt("err_dist",
           SinhArcsinhNode(Loc("zero", FALSE), Scale("y_sd", TRUE), FALSE), {}),
      Stmt("err", SelectNode("err_dist"), {"err_dist"}),
      Stmt("err_dist_summary",
           SinhArcsinhNode(Loc("zero", FALSE), Scale("y_sd_summary", TRUE), TRUE), {})>>

\* lines 907-939
asymmetric_raw_statements ==
    <<Stmt("out_dist",
           SinhArcsinhNode(Loc("out", FALSE), Scale("y_sd", FALSE), FALSE), {"out"}),
      Stmt("out", SelectNode("out_dist"), {"out_dist"}),
      Stmt("err_dist",
           SinhArcsinhNode(Loc("zero", FALSE), Scale("y_sd", FALSE), FALSE), {}),
      Stmt("err", SelectNode("err_dist"), {"err_dist"}),
      Stmt("err_dist_summary",
           SinhArcsinhNode(Loc("zero", FALSE), Scale("y_sd_summary", FALSE), TRUE), {})>>

\* lines 941-995
normal_standardized_statements ==
    <<Stmt("out_standardized_dist",
           NormalNode(Loc("out", FALSE), Scale("y_sd", FALSE)), {"out", "y_sd"}),
      Stmt("out_standardized", SelectNode("out_standardized_dist"),
           {"out_standardized_dist"}),
      Stmt("err_dist_standardized",
           NormalNode(Loc("zero", FALSE), Scale("y_sd", FALSE)), {"y_sd"}),
      Stmt("err_standardized", SelectNode("out_standardized_dist"),
           {"out_standardized_dist"}),
      Stmt("err_dist_standardized_summary",
           NormalNode(Loc("zero", FALSE), Scale("y_sd_summary", FALSE)),
           {"y_sd_summary"}),
      Stmt("out_dist", NormalNode(Loc("out", TRUE), Scale("y_sd", TRUE)),
           {"out", "y_sd"}),
      Stmt("out", SelectNode("out_dist"), {"out_dist"}),
      Stmt("err_dist", NormalNode(Loc("zero", FALSE), Scale("y_sd", TRUE)), {"y_sd"}),
      Stmt("err", SelectNode("err_dist"), {"err_dist"}),
      Stmt("err_dist_summary",
           NormalNode(Loc("zero", FALSE), Scale("y_sd_summary", TRUE)),
           {"y_sd_summary"})>>

\* lines 996-1022
normal_raw_statements ==
    <<Stmt("out_dist", NormalNode(Loc("out", FALSE), Scale("y_sd", FALSE)),
           {"out", "y_sd"}),
      Stmt("out", SelectNode("out_dist"), {"out_dist"}),
      Stmt("err_dist", NormalNode(Loc("zero", FALSE), Scale("y_sd", FALSE)), {"y_sd"}),
      Stmt("err", SelectNode("err_dist"), {"err_dist"}),
      Stmt("err_dist_summary",
           NormalNode(Loc("zero", FALSE), Scale("y_sd_summary", FALSE)),
           {"y_sd_summary"})>>

\* lines 736-782: y_sd is constraint_fn(.) + epsilon of the posterior value when
\* trainable, and the tensor y_sd_init_tf itself when fixed
y_sd_statements ==
    (IF cfg.y_sd_trainable
     THEN <<Stmt("y_sd_dist",
                 NormalNode(Loc("y_sd_loc_q", FALSE), ConstrainedScale("y_sd_scale_q")),
                 {})>>
     ELSE <<>>)
    \o <<Stmt("y_sd",
              Node(IF cfg.y_sd_trainable THEN "constrained" ELSE "plain",
                   "none", NoLoc, NoScale, "none", "none",
                   IF cfg.y_sd_trainable THEN "y_sd_dist" ELSE "y_sd_init_tf"),
              {}),
         Stmt("y_sd_summary",
              Node(IF cfg.y_sd_trainable THEN "constrained" ELSE "plain",
                   "none", NoLoc, NoScale, "none", "none",
                   IF cfg.y_sd_trainable THEN "y_sd_dist" ELSE "y_sd_init_tf"),
              {})>>

\* lines 1024-1042
derived_statements ==
    <<Stmt("err_dist_plot", DerivedNode("err_dist"), {"err_dist"}),
      Stmt("err_dist_plot_summary", DerivedNode("err_dist_summary"),
           {"err_dist_summary"}),
      Stmt("err_dist_lb", DerivedNode("err_dist_summary"), {"err_dist_summary"}),
      Stmt("err_dist_ub", DerivedNode("err_dist_summary"), {"err_dist_summary"})>>
    \o (IF cfg.standardize_response
        THEN <<Stmt("err_dist_standardized_theoretical_quantiles",
                    DerivedNode("err_dist_standardized"), {"err_dist_standardized"}),
               Stmt("err_dist_standardized_theoretical_cdf",
                    DerivedNode("err_dist_standardized"), {"err_dist_standardized"}),
               Stmt("err_dist_standardized_summary_theoretical_quantiles",
                    DerivedNode("err_dist_standardized_summary"),
                    {"err_dist_standardized_summary"}),
               Stmt("err_dist_standardized_summary_theoretical_cdf",
                    DerivedNode("err_dist_standardized_summary"),
                    {"err_dist_standardized_summary"})>>
        ELSE <<>>)
    \o <<Stmt("err_dist_theoretical_quantiles", DerivedNode("err_dist"), {"err_dist"}),
         Stmt("err_dist_theoretical_cdf", DerivedNode("err_dist"), {"err_dist"}),
         Stmt("err_dist_summary_theoretical_quantiles",
              DerivedNode("err_dist_summary"), {"err_dist_summary"}),
         Stmt("err_dist_summary_theoretical_cdf",
              DerivedNode("err_dist_summary"), {"err_dist_summary"})>>
    \o (IF cfg.standardize_response
        THEN <<Stmt("ll_standardized", DerivedNode("out_standardized_dist"),
                    {"out_standardized_dist"})>>
        ELSE <<>>)

\* the body of _initialize_output_model for the configured state
output_model_statements ==
    y_sd_statements
    \o (IF cfg.asymmetric_error
        THEN skewness_tailweight_statements
             \o (IF cfg.standardize_response
                 THEN asymmetric_standardized_statements
                 ELSE asymmetric_raw_statements)
        ELSE IF cfg.standardize_response
             THEN normal_standardized_statements
             ELSE normal_raw_statements)
    \o derived_statements

\* Running the statements in order: a statement that reads an attribute no
\* earlier statement bound raises AttributeError and ends the method.
RECURSIVE exec_statements(_, _)
exec_statements(stmts, bound) ==
    IF stmts = <<>> THEN [bound |-> bound, raised |-> FALSE]
    ELSE LET s == Head(stmts)
         IN  IF s.reads \subseteq DOMAIN bound
             THEN exec_statements(Tail(stmts), (s.attr :> s.node) @@ bound)
             ELSE [bound |-> bound, raised |-> TRUE]

\* self.out on entry is the network's output tensor
output_model_bound == exec_statements(output_model_statements, "out" :> TensorNode)

\* In the asymmetric standardized branch the standardized error distribution is
\* stored as err_dist_standardized_dist, and line 1031 reads
\* self.err_dist_standardized: the method raises there.
output_model_completes == ~output_model_bound.raised

\* _initialize_output_model, evaluated in one sess.run
OutputModel(feed, data, noise) ==
    LET out_in == net_out(feed, data, noise)
        sd == cfg.y_train_sd
        mean == cfg.y_train_mean
        y_sd == IF cfg.y_sd_trainable
                THEN Constrained(Select(ParamOf("y_sd", None), feed, noise)
                                    + y_delta(data))
                ELSE Plain(cfg.y_sd_init)
        y_sd_summary ==
                IF cfg.y_sd_trainable
                THEN summary_value(ParamOf("y_sd", None), feed, noise)
                ELSE y_sd
        y_skewness ==
                IF cfg.asymmetric_error
                THEN Select(ParamOf("y_skewness", None), feed, noise) + y_delta(data)
                ELSE 0
        y_skewness_summary ==
                IF cfg.asymmetric_error
                THEN summary_value(ParamOf("y_skewness", None), feed, noise).arg
                ELSE 0
        y_tailweight ==
                IF cfg.asymmetric_error
                THEN Constrained(Select(ParamOf("y_tailweight", None), feed, noise)
                                    + y_delta(data))
                ELSE Plain(1)
        y_tailweight_summary ==
                IF cfg.asymmetric_error
                THEN Constrained(
                        summary_value(ParamOf("y_tailweight", None), feed, noise).arg)
                ELSE Plain(1)
        Dist(loc, scale) ==
                IF cfg.asymmetric_error
                THEN SinhArcsinh(loc, scale, y_skewness, y_tailweight)
                ELSE Normal(loc, scale)
        DistSummary(loc, scale) ==
                IF cfg.asymmetric_error
                THEN SinhArcsinh(loc, scale, y_skewness_summary, y_tailweight_summary)
                ELSE Normal(loc, scale)
        out_standardized_dist == Dist(out_in, y_sd)
        err_dist_standardized == Dist(0, y_sd)
        err_dist_standardized_summary == DistSummary(0, y_sd_summary)
        out_dist ==
                IF cfg.standardize_response
                THEN Dist(out_in * sd + mean, Times(y_sd, sd))
                ELSE Dist(out_in, y_sd)
        err_dist ==
                IF cfg.standardize_response
                THEN Dist(0, Times(y_sd, sd)) ELSE Dist(0, y_sd)
        err_dist_summary ==
                IF cfg.standardize_response
                THEN DistSummary(0, Times(y_sd_summary, sd))
                ELSE DistSummary(0, y_sd_summary)
        y_standardized == [raw |-> data.y, minus |-> mean, over |-> sd]
        y_raw == [raw |-> data.y, minus |-> 0, over |-> 1]
    IN  [y_sd |-> y_sd, y_sd_summary |-> y_sd_summary,
         out_standardized_dist |-> out_standardized_dist,
         out_standardized |->
            SelectDist("out_standardized", out_standardized_dist, feed, noise),
         err_dist_standardized |-> err_dist_standardized,
         \* lines 959-963: the Normal branch selects from out_standardized_dist
         err_standardized |->
            SelectDist("err_standardized", out_standardized_dist, feed, noise),
         err_dist_standardized_summary |-> err_dist_standardized_summary,
         out_dist |-> out_dist,
         out |-> SelectDist("out", out_dist, feed, noise),
         err_dist |-> err_dist,
         err |-> SelectDist("err", err_dist, feed, noise),
         err_dist_summary |-> err_dist_summary,
         ll |-> log_prob(out_dist, y_raw),
         ll_standardized |-> log_prob(out_standardized_dist, y_standardized)]

----------------------------------------------------------------------------
(* Objective *)

\* int(2 / (1 - self.ema_decay))
ema_warm_up ==
    (2 * cfg.ema_decay.den) \div (cfg.ema_decay.den - cfg.ema_decay.num)

\* FLOAT_TF values: the finite ones are the integers strictly between
\* -FloatMax and FloatMax, the two infinities are the ends, and NaN is apart
FloatMax == 1073741824
PosInf == FloatMax
NegInf == -FloatMax
NaN == FloatMax + 1
IsNaN(a) == a = NaN
IsInf(a) == a = PosInf \/ a = NegInf
IsFinite(a) == ~IsNaN(a) /\ ~IsInf(a)
Overflow(v) == IF v >= FloatMax THEN PosInf
               ELSE IF v <= -FloatMax THEN NegInf ELSE v

\* IEEE arithmetic as the TensorFlow kernels compute it
fNeg(a) == IF IsNaN(a) THEN NaN ELSE -a
fAdd(a, b) ==
    IF IsNaN(a) \/ IsNaN(b) THEN NaN
    ELSE IF IsInf(a) /\ IsInf(b) THEN (IF a = b THEN a ELSE NaN)
    ELSE IF IsInf(a) THEN a
    ELSE IF IsInf(b) THEN b
    ELSE Overflow(a + b)
fSub(a, b) == fAdd(a, fNeg(b))
fMul(a, b) ==
    IF IsNaN(a) \/ IsNaN(b) THEN NaN
    ELSE IF IsInf(a) \/ IsInf(b)
         THEN (IF a = 0 \/ b = 0 THEN NaN
               ELSE IF (a > 0) = (b > 0) THEN PosInf ELSE NegInf)
    ELSE Overflow(a * b)
\* division by a positive count
fDiv(a, n) == IF IsFinite(a) THEN a \div n ELSE a
fSqrt(a) == IF IsNaN(a) \/ a < 0 THEN NaN
            ELSE IF IsInf(a) THEN PosInf ELSE ISqrt(a)
\* a < b is False when either side is NaN
fLess(a, b) == ~IsNaN(a) /\ ~IsNaN(b) /\ a < b

\* tf.reduce_sum
RECURSIVE fSum(_)
fSum(s) == IF s = <<>> THEN 0 ELSE fAdd(Head(s), fSum(Tail(s)))

\* a / (n + self.epsilon): epsilon only matters when n is 0
Huge == LossUnit * 16384
DivEps(a, n) ==
    IF ~IsFinite(a) THEN a
    ELSE IF n = 0 THEN (IF a = 0 THEN 0 ELSE Huge) ELSE a \div n

\* beta * old + (1 - beta) * cur
ema_update(old, cur) ==
    fDiv(fAdd(fMul(cfg.ema_decay.num, old),
              fMul(cfg.ema_decay.den - cfg.ema_decay.num, cur)),
         cfg.ema_decay.den)

\* the values of one KL tensor: one per element of its parameter, growing as
\* the posterior moves away from where it started
KLElements(e) == [i \in 1..e.n |-> q_shift + 1]

\* a reduction that forgets to sum inside each entry
kl_reduce_first(kl_terms) ==
    SumSeq([i \in DOMAIN kl_terms |-> Head(KLElements(kl_terms[i]))])

\* tf.reduce_sum([tf.reduce_sum(x) for x in self.kl_penalties])
kl_reduce(kl_terms) ==
    SumSeq([i \in DOMAIN kl_terms |-> SumSeq(KLElements(kl_terms[i]))])

\* _regularize of the base class: the L-p penalty of one variable joins
\* self.regularizer_losses
regularize(losses, v) == Append(losses, v.penalty)

\* for l in self.regularizable_layers: for v in vars: if 'bias' not in v.name
RECURSIVE regularize_layers(_, _)
regularize_layers(losses, vs) ==
    IF vs = <<>> THEN losses
    ELSE regularize_layers(
            IF ~Head(vs).bias THEN regularize(losses, Head(vs)) ELSE losses,
            Tail(vs))

\* The tensors initialize_objective defines (lines 1056-1113), evaluated in one
\* sess.run on the per-example losses -ll of the fed batch.  loss_sd_cur reads
\* self.loss_ema with no control dependency on loss_ema_op: when the run also
\* fetches loss_ema_op, the read sees the value before or after the assignment
\* (late).
ObjectiveRun(losses, late) ==
    LET has_filter == cfg.loss_filter_n_sds # 0 /\ cfg.ema_decay.set
        n_sds == cfg.loss_filter_n_sds
        loss_cutoff == fAdd(loss_ema, fMul(n_sds, loss_sd_ema))
        loss_func_filter ==
            [i \in DOMAIN losses |-> IF fLess(losses[i], loss_cutoff) THEN 1 ELSE 0]
        loss_func_filtered ==
            [i \in DOMAIN losses |-> fMul(losses[i], loss_func_filter[i])]
        n_batch == Len(losses)
        n_dropped == n_batch - SumSeq(loss_func_filter)
        filtering == has_filter /\ global_batch_step > ema_warm_up
        loss_func == IF filtering THEN loss_func_filtered ELSE losses
        n_retained == IF filtering THEN SumSeq(loss_func_filter) ELSE n_batch
        loss_mean_cur == DivEps(fSum(loss_func), n_retained)
        loss_ema_read == IF late THEN ema_update(loss_ema, loss_mean_cur)
                         ELSE loss_ema
        loss_sd_cur ==
            DivEps(fSqrt(fSum([i \in DOMAIN loss_func |->
                            fMul(fSub(loss_func[i], loss_ema_read),
                                 fSub(loss_func[i], loss_ema_read))])),
                   n_retained)
        lik == IF cfg.scale_loss_with_data
               THEN fMul(fSum(loss_func), cfg.minibatch_scale)
               ELSE fDiv(fSum(loss_func), n_batch)
        lp_loss == IF Len(regularizer_losses) > 0
                   THEN SumSeq(regularizer_losses) ELSE 0
        loss_1 == fAdd(lik, lp_loss)
        kl_loss == IF Len(graph.kl_terms) > 0 THEN kl_reduce(graph.kl_terms) ELSE 0
        loss_2 == fAdd(loss_1, kl_loss)
        reg_loss == lp_loss + kl_loss
    IN  [losses |-> losses, filtering |-> filtering,
         loss_cutoff |-> IF has_filter THEN loss_cutoff ELSE 0,
         loss_func |-> loss_func, n_batch |-> n_batch,
         n_retained |-> n_retained,
         n_dropped |-> IF has_filter THEN n_dropped ELSE 0,
         loss_mean_cur |-> IF has_filter THEN loss_mean_cur ELSE 0,
         loss_sd_cur |-> IF has_filter THEN loss_sd_cur ELSE 0,
         loss_ema_update |->
            IF has_filter THEN ema_update(loss_ema, loss_mean_cur) ELSE loss_ema,
         loss_sd_ema_update |->
            IF has_filter THEN ema_update(loss_sd_ema, loss_sd_cur) ELSE loss_sd_ema,
         lik |-> lik, lp_loss |-> lp_loss,
         kl_values |-> [i \in DOMAIN graph.kl_terms |-> KLElements(graph.kl_terms[i])],
         kl_loss |-> kl_loss, reg_loss |-> reg_loss, loss |-> loss_2]

\* a run that fetches no assignment to loss_ema
Objective(losses) == ObjectiveRun(losses, FALSE)

\* the orders in which a train step can read and assign loss_ema
LateReads == IF graph.has_filter THEN BOOLEAN ELSE {FALSE}

\* an assert that never fires
assert_skipped == TRUE

\* assert self.optim_name is not None, 'An optimizer name must be supplied'
assert_optim_name == cfg.optim_name # None

\* initialize_objective: the output model, the loss filter, the regularizers,
\* the KL term and the optimizer
initialize_objective ==
    /\ phase = "build"
    /\ params' = AddParams(params, output_model_params)
    /\ kl_penalties' = AddPenalties(kl_penalties, output_model_params)
    /\ IF ~output_model_completes
       THEN /\ phase' = "error"
            /\ graph' = [graph EXCEPT !.output = output_model_bound.bound]
            /\ UNCHANGED regularizer_losses
       ELSE /\ regularizer_losses' =
                  regularize_layers(regularizer_losses, cfg.regularizable_layers)
            /\ IF ~assert_optim_name
               THEN /\ phase' = "error"
                    /\ graph' = [NoGraph EXCEPT
                          !.layers = graph.layers,
                          !.output = output_model_bound.bound,
                          !.has_filter = cfg.loss_filter_n_sds # 0 /\ cfg.ema_decay.set,
                          !.selectors = output_model_selectors,
                          !.kl_terms = kl_penalties']
               ELSE /\ phase' = "ready"
                    /\ graph' = [built |-> TRUE,
                          has_filter |-> cfg.loss_filter_n_sds # 0 /\ cfg.ema_decay.set,
                          train_op |-> TRUE,
                          selectors |-> output_model_selectors,
                          kl_terms |-> kl_penalties',
                          layers |-> graph.layers,
                          output |-> output_model_bound.bound]
    /\ UNCHANGED <<cfg, session>>

----------------------------------------------------------------------------
(* Training / inference driver *)

Ready == phase = "ready"

\* every tf.cond of the graph, by name, with the flag it branches on
Selectors ==
    {Name(params[i]) : i \in DOMAIN params}
        \cup {<<node, None>> : node \in graph.selectors}

FlagOf(n) ==
    IF HasParam(n[1], n[2]) THEN ParamOf(n[1], n[2]).flag ELSE SelectorFlag(n[1])

\* what each tf.cond takes in one sess.run
Decisions(feed) ==
    [n \in Selectors |-> IF FlagValue(FlagOf(n), feed) THEN "mean" ELSE "sample"]

\* the summary tensors as one sess.run would evaluate them
Summaries(feed, noise) ==
    [n \in {Name(params[i]) : i \in DOMAIN params} |->
        summary_value(ParamOf(n[1], n[2]), feed, noise)]

\* the per-example losses -ll of the fed batch; a sampled forward pass moves them
Realized(batch, feed, noise) ==
    [i \in DOMAIN batch |-> batch[i] + (IF UseMAPMode(feed) THEN 0 ELSE noise)]

\* the part of the record every sess.run fills in
RunOf(op, feed, noise) ==
    [NoRun EXCEPT !.op = op, !.feed = feed,
                  !.use_MAP_mode = UseMAPMode(feed),
                  !.noise = IF UseMAPMode(feed) THEN 0 ELSE noise,
                  !.decision = Decisions(feed),
                  !.summary = Summaries(feed, noise)]

model_state == <<cfg, phase, params, kl_penalties, regularizer_losses, graph,
                 q_shift, delta_ema, loss_ema, loss_sd_ema, global_batch_step>>

\* the EMA ops of the RNN states, one per RNN layer
rnn_h_ema_ops == [l \in 1..cfg.n_layers_rnn |-> "rnn_h_ema_op"]
rnn_c_ema_ops == [l \in 1..cfg.n_layers_rnn |-> "rnn_c_ema_op"]

\* to_run and to_run_names as run_train_step assembles them
train_to_run ==
    <<"train_op", "ema_op", "y_sd_delta_ema_op">>
    \o (IF cfg.n_layers_rnn # 0 THEN rnn_h_ema_ops \o rnn_c_ema_ops ELSE <<>>)
    \o (IF cfg.asymmetric_error
        THEN <<"y_skewness_delta_ema_op", "y_tailweight_delta_ema_op">> ELSE <<>>)
    \o (IF cfg.loss_filter_n_sds # 0
        THEN <<"loss_ema_op", "loss_sd_ema_op", "n_dropped">> ELSE <<>>)
    \o <<"loss_func", "reg_loss">>

train_to_run_names ==
    (IF cfg.loss_filter_n_sds # 0 THEN <<"n_dropped">> ELSE <<>>)
    \o <<"loss", "reg_loss">>

\* what sess.run returns for one fetched op
Fetched(op, obj) ==
    CASE op = "n_dropped" -> obj.n_dropped
      [] op = "loss_func" -> obj.loss
      [] op = "reg_loss" -> obj.reg_loss
      [] op = "loss_ema_op" -> obj.loss_ema_update
      [] op = "loss_sd_ema_op" -> obj.loss_sd_ema_update
      [] OTHER -> 0

\* a dict zipped with the head of out instead of its tail
train_out_dict_head(obj) ==
    LET names == train_to_run_names
    IN  [k \in {names[i] : i \in DOMAIN names} |->
            LET i == CHOOSE j \in DOMAIN names : names[j] = k
            IN  Fetched(train_to_run[i], obj)]

\* {x: y for x, y in zip(to_run_names, out[-len(to_run_names):])}
train_out_dict(obj) ==
    LET names == train_to_run_names
        skip == Len(train_to_run) - Len(names)
    IN  [k \in {names[i] : i \in DOMAIN names} |->
            LET i == CHOOSE j \in DOMAIN names : names[j] = k
            IN  Fetched(train_to_run[skip + i], obj)]

\* run_train_step: one optimizer step.  shift is how far the optimizer moves
\* the posterior locations, ema the value the delta EMA ops assign.
run_train_step(feed, batch, noise, shift, ema) ==
    /\ Ready
    /\ global_batch_step < MaxSteps
    /\ IF cfg.loss_filter_n_sds # 0 /\ ~graph.has_filter
       THEN \* self.loss_ema_op does not exist: AttributeError before sess.run
            /\ run' = [RunOf("train", feed, noise) EXCEPT !.error = TRUE,
                                                          !.batch = batch]
            /\ UNCHANGED model_state
       ELSE \E late \in LateReads :
            LET obj == ObjectiveRun(Realized(batch, feed, noise), late) IN
            /\ run' = [RunOf("train", feed, noise) EXCEPT
                          !.batch = batch, !.obj = obj,
                          !.value = train_out_dict(obj)]
            /\ q_shift' = IF q_shift + shift > MaxShift THEN MaxShift
                          ELSE q_shift + shift
            /\ global_batch_step' = global_batch_step + 1
            /\ loss_ema' = obj.loss_ema_update
            /\ loss_sd_ema' = obj.loss_sd_ema_update
            /\ delta_ema' =
                  [k \in DOMAIN delta_ema |->
                      IF k = "y_sd" \/ cfg.asymmetric_error THEN ema
                      ELSE delta_ema[k]]
            /\ UNCHANGED <<cfg, phase, params, kl_penalties, regularizer_losses,
                           graph>>

\* a de-standardization that forgets the mean
destandardize_scaled(x) == x * cfg.y_train_sd

\* preds * self.y_train_sd + self.y_train_mean
destandardize(x) == x * cfg.y_train_sd + cfg.y_train_mean

\* (self.y - self.y_train_mean) / self.y_train_sd
standardize(v) == (v - cfg.y_train_mean) \div cfg.y_train_sd

\* run_predict_op: sess.run(self.out), then the de-standardization of line 1165
run_predict_op(feed, data, standardize_response, algorithm, noise) ==
    /\ Ready
    /\ LET preds == OutputModel(feed, data, noise).out IN
       run' = [RunOf("predict", feed, noise) EXCEPT
                  !.data = data, !.standardize_response = standardize_response,
                  !.algorithm = algorithm,
                  !.net = net_out(feed, data, noise),
                  !.value = IF cfg.standardize_response /\ ~standardize_response
                            THEN destandardize(preds)
                            ELSE preds]
    /\ UNCHANGED model_state

\* run_loglik_op: sess.run(self.ll_standardized) or sess.run(self.ll)
run_loglik_op(feed, data, standardize_response, algorithm, noise) ==
    /\ Ready
    /\ LET om == OutputModel(feed, data, noise) IN
       run' = [RunOf("loglik", feed, noise) EXCEPT
                  !.data = data, !.standardize_response = standardize_response,
                  !.algorithm = algorithm,
                  !.net = net_out(feed, data, noise),
                  !.value = IF cfg.standardize_response /\ standardize_response
                            THEN om.ll_standardized ELSE om.ll]
    /\ UNCHANGED model_state

\* run_loss_op: sess.run(self.loss_func)
run_loss_op(feed, batch, algorithm, noise) ==
    /\ Ready
    /\ LET obj == Objective(Realized(batch, feed, noise)) IN
       run' = [RunOf("loss", feed, noise) EXCEPT
                  !.batch = batch, !.algorithm = algorithm, !.obj = obj,
                  !.value = obj.loss]
    /\ UNCHANGED model_state

----------------------------------------------------------------------------
(* The model after the base class has called the builders *)

BuiltParams ==
    <<intercept_param(None), coefficient_param(None), h_bias_param(None),
      irf_l1_W_bias_param(None), irf_l1_b_bias_param(None)>>
    \o (IF cfg.n_layers_rnn # 0 THEN <<rnn_h_param(None), rnn_c_param(None)>>
        ELSE <<>>)
    \o <<intercept_param(rangf[1])>>

InitModel(kwargs) ==
    /\ cfg \in {initialize_metadata(c) : c \in kwargs}
    /\ phase = "build"
    /\ params = BuiltParams
    /\ kl_penalties = AddPenalties(<<>>, BuiltParams)
    /\ regularizer_losses = <<>>
    /\ graph = NoGraph
    /\ FreshSession

----------------------------------------------------------------------------
(* Specification of the driver: any feed dict, any query *)

DriverKwargs ==
    {[DefaultKwargs EXCEPT
        !.standardize_response = st, !.asymmetric_error = as,
        !.y_sd_trainable = tr, !.optim_name = on] :
        st \in BOOLEAN, as \in BOOLEAN, tr \in BOOLEAN, on \in {"Adam", None}}

\* what a caller may put in the feed dict for the two placeholders
FeedDicts ==
    {[training |-> "unset", use_MAP_mode |-> "unset"],
     [training |-> "T", use_MAP_mode |-> "unset"],
     [training |-> "unset", use_MAP_mode |-> "F"],
     [training |-> "T", use_MAP_mode |-> "T"]}

\* the fed batch: what the rest of the network contributes, and the response
Data == {[x |-> 0, y |-> 3], [x |-> 1, y |-> 5]}

Noise == {0, 1}
\* a forward pass at the posterior mean draws nothing
NoiseFor(feed) == IF UseMAPMode(feed) THEN {0} ELSE Noise
Shifts == {0, 1}
DeltaEmas == {0, 1}
Algorithms == {"MAP", "sampling"}
OneBatch == <<LossUnit, 2 * LossUnit>>

Init == InitModel(DriverKwargs)

Next ==
    \/ initialize_objective
    \/ \E f \in FeedDicts, s \in Shifts, e \in DeltaEmas : \E n \in NoiseFor(f) :
            global_batch_step < MaxDriverSteps /\ run_train_step(f, OneBatch, n, s, e)
    \/ \E f \in FeedDicts, d \in Data, st \in BOOLEAN, a \in Algorithms :
            \E n \in NoiseFor(f) : run_predict_op(f, d, st, a, n)
    \/ \E f \in FeedDicts, d \in Data, st \in BOOLEAN, a \in Algorithms :
            \E n \in NoiseFor(f) : run_loglik_op(f, d, st, a, n)
    \/ \E f \in FeedDicts, a \in Algorithms : \E n \in NoiseFor(f) :
            run_loss_op(f, OneBatch, a, n)

Spec == Init /\ [][Next]_vars

----------------------------------------------------------------------------
(* Specification of training: the objective and the loss filter *)

Kernel(p) == [bias |-> FALSE, penalty |-> p]
Bias(p) == [bias |-> TRUE, penalty |-> p]

TrainKwargs ==
    {[DefaultKwargs EXCEPT
        !.loss_filter_n_sds = ns, !.ema_decay.set = ed,
        !.scale_loss_with_data = sc,
        !.declare_priors_fixef = dp, !.declare_priors_ranef = dp,
        !.regularizable_layers = rl] :
        ns \in {0, 2}, ed \in BOOLEAN, sc \in BOOLEAN, dp \in BOOLEAN,
        rl \in {<<>>, <<Kernel(3), Bias(5), Kernel(4)>>}}

\* the per-example losses a batch can have at the posterior mean
Batches ==
    {<<LossUnit, LossUnit, LossUnit, LossUnit, LossUnit>>,
     <<LossUnit, LossUnit, LossUnit, LossUnit, 100 * LossUnit>>}

\* fit() of the base class feeds training = True
TrainFeed == [training |-> "T", use_MAP_mode |-> "unset"]

InitTrain == InitModel(TrainKwargs)

NextTrain ==
    \/ initialize_objective
    \/ \E b \in Batches, s \in Shifts : run_train_step(TrainFeed, b, 0, s, 0)
    \/ \E b \in Batches : run_loss_op(NoFeed, b, "MAP", 0)

SpecTrain == InitTrain /\ [][NextTrain]_vars

----------------------------------------------------------------------------
(* Specification of a model's life: construction, objective, training, queries *)

LifeKwargs ==
    {[DefaultKwargs EXCEPT
        !.declare_priors_fixef = df, !.declare_priors_ranef = dr] :
        df \in BOOLEAN, dr \in BOOLEAN}

LifeGroups == {None, rangf[1]}

InitLife ==
    /\ cfg \in {initialize_metadata(c) : c \in LifeKwargs}
    /\ phase = "build"
    /\ params = <<>>
    /\ kl_penalties = <<>>
    /\ regularizer_losses = <<>>
    /\ graph = NoGraph
    /\ FreshSession

\* the network's output needs the intercept the base class always builds
HasIntercept == HasParam("intercept", None)

NextLife ==
    \/ \E g \in LifeGroups : initialize_intercept(g)
    \/ \E g \in LifeGroups : initialize_irf_l1_biases(g)
    \/ \E eager \in BOOLEAN : initialize_feedforward("projection", eager)
    \/ \E eager \in BOOLEAN : initialize_rnn(0, eager)
    \/ \E i \in 1..MaxLayers : layer_build(i)
    \/ initialize_objective
    \/ \E s \in Shifts :
            global_batch_step < MaxDriverSteps
                /\ run_train_step(TrainFeed, OneBatch, 0, s, 0)
    \/ HasIntercept /\ run_predict_op(NoFeed, NoData, FALSE, "MAP", 0)
    \/ HasIntercept /\ run_loglik_op(NoFeed, NoData, FALSE, "MAP", 0)
    \/ run_loss_op(NoFeed, OneBatch, "MAP", 0)

SpecLife == InitLife /\ [][NextLife]_vars

----------------------------------------------------------------------------
(* Specification of the loss filter: batches with an outlier, an example at
   the cutoff, a NaN or an infinite loss *)

FilterKwargs ==
    {[DefaultKwargs EXCEPT
        !.loss_filter_n_sds = 2, !.scale_loss_with_data = sc,
        !.declare_priors_fixef = dp, !.declare_priors_ranef = dp] :
        sc \in BOOLEAN, dp \in BOOLEAN}

\* the per-example losses of a fed batch; the last example may sit exactly
\* at the current cutoff
FilterBatches ==
    {<<LossUnit, LossUnit, LossUnit>>,
     <<LossUnit, LossUnit, 100 * LossUnit>>,
     <<LossUnit, LossUnit, fAdd(loss_ema, fMul(cfg.loss_filter_n_sds, loss_sd_ema))>>,
     <<LossUnit, LossUnit, NaN>>,
     <<LossUnit, LossUnit, PosInf>>}

InitFilter == InitModel(FilterKwargs)

NextFilter ==
    \/ initialize_objective
    \/ \E b \in FilterBatches : run_train_step(TrainFeed, b, 0, 0, 0)

SpecFilter == InitFilter /\ [][NextFilter]_vars

----------------------------------------------------------------------------
(* Specification of the fetch list: every combination of RNN layers,
   asymmetric error and loss filter, then train steps *)

FetchKwargs ==
    {[DefaultKwargs EXCEPT
        !.n_layers_rnn = nl, !.asymmetric_error = as,
        !.loss_filter_n_sds = ns, !.ema_decay.set = ed] :
        nl \in 0..MaxLayers, as \in BOOLEAN, ns \in {0, 2}, ed \in BOOLEAN}

InitFetch == InitModel(FetchKwargs)

NextFetch ==
    \/ initialize_objective
    \/ \E b \in Batches, e \in DeltaEmas : run_train_step(TrainFeed, b, 0, 0, e)

SpecFetch == InitFetch /\ [][NextFetch]_vars

----------------------------------------------------------------------------
(* Specification of standardization: response statistics frozen at
   construction, then queries *)

StandardizeKwargs ==
    {[DefaultKwargs EXCEPT
        !.standardize_response = st, !.y_train_mean = mean, !.y_train_sd = sd] :
        st \in BOOLEAN, mean \in {-5, 0, 3}, sd \in {1, 2, 3}}

InitStandardize == InitModel(StandardizeKwargs)

NextStandardize ==
    \/ initialize_objective
    \/ \E f \in FeedDicts, d \in Data, st \in BOOLEAN :
            \E n \in NoiseFor(f) : run_predict_op(f, d, st, "MAP", n)
    \/ \E d \in Data, st \in BOOLEAN : run_loglik_op(NoFeed, d, st, "MAP", 0)

SpecStandardize == InitStandardize /\ [][NextStandardize]_vars

----------------------------------------------------------------------------
(* Plotting: what each plot function does with an exception raised while it
   renders and saves *)

\* what the body of a try block raised; "none" when it ran through
Exceptions == {"none", "TypeError", "ValueError", "OSError"}

\* the except clause of each function: plot_irf and plot_heatmap have a bare
\* except, plot_surface has except TypeError as e, plot_qq has except e
ExceptClause(fn) ==
    CASE fn = "plot_surface" -> "TypeError"
      [] fn = "plot_qq" -> "e"
      [] OTHER -> "bare"

\* Leaving a try block: a matching clause logs to stderr and the function goes
\* on; a clause that does not match lets the exception through; evaluating the
\* unbound name e raises NameError in place of the exception.
try_except(fn, exc) ==
    IF exc = "none" THEN [logged |-> FALSE, raised |-> "none"]
    ELSE CASE ExceptClause(fn) = "bare" -> [logged |-> TRUE, raised |-> "none"]
           [] ExceptClause(fn) = "TypeError" ->
                IF exc = "TypeError" THEN [logged |-> TRUE, raised |-> "none"]
                ELSE [logged |-> FALSE, raised |-> exc]
           [] OTHER -> [logged |-> FALSE, raised |-> "NameError"]

PlotTypes == {"surf", "SURF", "trisurf", "contour", "wireframe", "heatmap"}
\* plot_type.lower()
lower(t) == IF t = "SURF" THEN "surf" ELSE t

\* the try body of plot_surface for one surface: the plot type is dispatched,
\* an unrecognized one raises ValueError, then the figure is saved
surface_body(plot_type, save) ==
    IF lower(plot_type) \in {"surf", "trisurf", "contour", "wireframe"}
    THEN save ELSE "ValueError"

\* for i in range(len(sort_ix)): one try block per surface; an exception that
\* gets through ends the loop
RECURSIVE surface_loop(_, _, _)
surface_loop(plot_type, saves, log) ==
    IF saves = <<>> THEN [log |-> log, raised |-> "none"]
    ELSE LET res == try_except("plot_surface",
                               surface_body(plot_type, Head(saves)))
         IN  IF res.raised # "none" THEN [log |-> log, raised |-> res.raised]
             ELSE surface_loop(plot_type, Tail(saves),
                               IF res.logged THEN Append(log, Len(log) + 1) ELSE log)

\* the record of one call: its arguments, whether a try body raised, what was
\* written to stderr and what left the function
PlotCall(fn, plot_type, saves, failed, log, raised) ==
    [NoRun EXCEPT !.op = fn, !.error = raised # "none",
                  !.value = [plot_type |-> plot_type, saves |-> saves,
                             failed |-> failed, log |-> log, raised |-> raised]]

\* plot_irf, plot_qq, plot_heatmap: render, then one try block around savefig
plot_one(fn, save) ==
    /\ LET res == try_except(fn, save) IN
       run' = PlotCall(fn, "none", <<save>>, save # "none",
                       IF res.logged THEN <<1>> ELSE <<>>, res.raised)
    /\ UNCHANGED model_state

plot_irf(save) == plot_one("plot_irf", save)
plot_qq(save) == plot_one("plot_qq", save)
plot_heatmap(save) == plot_one("plot_heatmap", save)

plot_surface(plot_type, saves) ==
    /\ LET res == surface_loop(plot_type, saves, <<>>) IN
       run' = PlotCall("plot_surface", plot_type, saves,
                       \E i \in DOMAIN saves :
                            surface_body(plot_type, saves[i]) # "none",
                       res.log, res.raised)
    /\ UNCHANGED model_state

MaxSurfaces == 3

SurfaceSaves == UNION {[1..n -> Exceptions] : n \in 1..MaxSurfaces}

InitPlot == InitModel({DefaultKwargs})

NextPlot ==
    \/ \E s \in Exceptions : plot_irf(s)
    \/ \E s \in Exceptions : plot_qq(s)
    \/ \E s \in Exceptions : plot_heatmap(s)
    \/ \E t \in PlotTypes, ss \in SurfaceSaves : plot_surface(t, ss)

SpecPlot == InitPlot /\ [][NextPlot]_vars

----------------------------------------------------------------------------
(* Metadata: packing the hyperparameters into a dict and restoring them *)

\* Kwarg objects: key and default_value
Kwarg(key) == [key |-> key, default_value |-> DefaultKwargs[key]]

\* the hyperparameters CDRNNBayes declares, in declaration order
CDRNNBAYES_INITIALIZATION_KWARGS ==
    <<Kwarg("declare_priors_fixef"), Kwarg("posterior_to_prior_sd_ratio")>>

\* the hyperparameters the base classes declare
BASE_INITIALIZATION_KWARGS == <<Kwarg("scale_loss_with_data")>>

Keys(kwargs) == {kwargs[i].key : i \in DOMAIN kwargs}

\* a dict without the key
dict_del(md, key) == [k \in DOMAIN md \ {key} |-> md[k]]
\* md[key] = value
dict_set(md, key, value) == [k \in DOMAIN md \cup {key} |->
                                IF k = key THEN value ELSE md[k]]

\* a pop that always answers the default
md_pop_default(md, key, default) == default

\* md.pop(key, default): the value it returns
md_pop(md, key, default) == IF key \in DOMAIN md THEN md[key] ELSE default

\* for kwarg in kwargs: md[kwarg.key] = getattr(self, kwarg.key)
RECURSIVE pack_loop(_, _, _)
pack_loop(kwargs, self, md) ==
    IF kwargs = <<>> THEN md
    ELSE pack_loop(Tail(kwargs), self,
                   dict_set(md, Head(kwargs).key, self[Head(kwargs).key]))

\* for kwarg in kwargs: setattr(self, kwarg.key, md.pop(kwarg.key, default))
RECURSIVE unpack_loop(_, _, _)
unpack_loop(kwargs, self, md) ==
    IF kwargs = <<>> THEN [self |-> self, md |-> md]
    ELSE LET kw == Head(kwargs) IN
         unpack_loop(Tail(kwargs),
                     [self EXCEPT ![kw.key] = md_pop(md, kw.key, kw.default_value)],
                     dict_del(md, kw.key))

EmptyDict == [k \in {} |-> 0]

\* _pack_metadata: the base classes' dict plus one entry per own hyperparameter
pack_metadata_dict(self) ==
    pack_loop(CDRNNBAYES_INITIALIZATION_KWARGS, self,
              pack_loop(BASE_INITIALIZATION_KWARGS, self, EmptyDict))

\* _unpack_metadata: the base classes take their keys out of md, then the own
\* loop; keys that are left are written to stderr
unpack_metadata_result(self, md) ==
    LET base == unpack_loop(BASE_INITIALIZATION_KWARGS, self, md)
        own == unpack_loop(CDRNNBAYES_INITIALIZATION_KWARGS, base.self, base.md)
    IN  [self |-> own.self, stderr |-> DOMAIN own.md]

MetaCall(op, md, stderr) ==
    [NoRun EXCEPT !.op = op, !.value = [md |-> md, stderr |-> stderr]]

_pack_metadata ==
    /\ phase = "build"
    /\ run' = MetaCall("_pack_metadata", pack_metadata_dict(cfg), {})
    /\ UNCHANGED <<cfg, phase, params, kl_penalties, regularizer_losses, graph,
                   trained>>

_unpack_metadata(md) ==
    /\ phase = "build"
    /\ LET res == unpack_metadata_result(cfg, md) IN
        /\ cfg' = res.self
        /\ run' = MetaCall("_unpack_metadata", md, res.stderr)
    /\ UNCHANGED <<phase, params, kl_penalties, regularizer_losses, graph,
                   trained>>

\* saved metadata dicts: any of the recognized keys present or missing, with
\* or without a key no class recognizes
SavedValues ==
    [declare_priors_fixef : BOOLEAN, posterior_to_prior_sd_ratio : {1, 2},
     scale_loss_with_data : BOOLEAN, n_iter_legacy : {7}]

SavedKeys == {"declare_priors_fixef", "posterior_to_prior_sd_ratio",
              "scale_loss_with_data", "n_iter_legacy"}

SavedDicts ==
    {[k \in ks |-> v[k]] : ks \in SUBSET SavedKeys, v \in SavedValues}

MetaKwargs ==
    {[DefaultKwargs EXCEPT
        !.declare_priors_fixef = df, !.posterior_to_prior_sd_ratio = pq,
        !.scale_loss_with_data = sc] :
        df \in BOOLEAN, pq \in {1, 2}, sc \in BOOLEAN}

InitMeta == InitModel(MetaKwargs)

NextMeta ==
    \/ _pack_metadata
    \/ \E md \in SavedDicts : _unpack_metadata(md)
    \/ run.op = "_pack_metadata" /\ _unpack_metadata(run.value.md)

SpecMeta == InitMeta /\ [][NextMeta]_vars

----------------------------------------------------------------------------
(* Specification of the output model: every state of the two flags, y_sd
   trainable or fixed, then queries *)

OutputKwargs ==
    {[DefaultKwargs EXCEPT
        !.standardize_response = st, !.asymmetric_error = as,
        !.y_sd_trainable = tr, !.declare_priors_fixef = df, !.y_sd_init = sd0] :
        st \in BOOLEAN, as \in BOOLEAN, tr \in BOOLEAN, df \in BOOLEAN,
        sd0 \in {0, 2}}

InitOutput == InitModel(OutputKwargs)

NextOutput ==
    \/ initialize_objective
    \/ \E f \in FeedDicts, d \in Data, st \in BOOLEAN, a \in Algorithms :
            \E n \in NoiseFor(f) : run_predict_op(f, d, st, a, n)
    \/ \E f \in FeedDicts, d \in Data, st \in BOOLEAN, a \in Algorithms :
            \E n \in NoiseFor(f) : run_loglik_op(f, d, st, a, n)

SpecOutput == InitOutput /\ [][NextOutput]_vars

----------------------------------------------------------------------------
(* Claims about the builders *)

\* the prior scale the fixed-effect call of the same kind uses
FixefPriorScale(kind) ==
    CASE kind = "intercept" -> intercept_prior_sd_tf
      [] kind \in {"coefficient", "irf_l1_W_bias"} ->
            resolve_sd_prior(cfg.weight_prior_sd, Units(kind))
      [] OTHER -> resolve_sd_prior(cfg.bias_prior_sd, Units(kind))

BuilderKinds == {"intercept", "coefficient", "rnn_h", "rnn_c", "h_bias",
                 "irf_l1_W_bias", "irf_l1_b_bias"}

RanefWithPrior(p) == p.kind \in BuilderKinds /\ p.ran_gf # None /\ p.prior # NoPrior

\* C9: for every parameter kind, the prior scale of a random-effect call is the
\* prior scale of the fixed-effect call of that kind times
\* ranef_to_fixef_prior_sd_ratio.
C9_RanefPriorScale ==
    \A i \in DOMAIN params :
        RanefWithPrior(params[i]) =>
            params[i].prior[1].scale =
                FixefPriorScale(params[i].kind) * cfg.ranef_to_fixef_prior_sd_ratio

\* C9, a state where the claim's case happens: a random-effect h_bias with a prior
C9_Witness ==
    \E i \in DOMAIN params :
        RanefWithPrior(params[i]) /\ params[i].kind = "h_bias"

\* C10: for every kind and both call shapes, the initial posterior scale (the
\* value whose inverse constraint seeds the raw scale variable) is that call's
\* prior scale times posterior_to_prior_sd_ratio.
C10_PosteriorScaleInit ==
    \A i \in DOMAIN params :
        (params[i].kind \in BuilderKinds /\ params[i].prior # NoPrior) =>
            /\ params[i].q_scale.fill = 1
            /\ params[i].q_scale.sd =
                  params[i].prior[1].scale * cfg.posterior_to_prior_sd_ratio

\* C10, a state where the claim's case happens: a random-effect intercept with a prior
C10_Witness ==
    \E i \in DOMAIN params :
        RanefWithPrior(params[i]) /\ params[i].kind = "intercept"

----------------------------------------------------------------------------
(* Claims about the driver *)

Queries == {"predict", "loglik", "loss"}

\* C1: with a model built with standardize_response, run_predict_op with
\* standardize_response=False returns the standardized network output
\* de-standardized exactly once, and with standardize_response=True returns the
\* standardized output itself; without standardization the prediction is
\* returned unchanged.  (Stated for the Normal family at the posterior mean.)
C1_PredictDestandardizedOnce ==
    (run.op = "predict" /\ run.use_MAP_mode /\ ~cfg.asymmetric_error) =>
        run.value =
            IF cfg.standardize_response /\ ~run.standardize_response
            THEN run.net * cfg.y_train_sd + cfg.y_train_mean
            ELSE run.net

\* C1, the claim's case: a standardized model asked for raw units
C1_Witness ==
    /\ run.op = "predict" /\ run.use_MAP_mode
    /\ cfg.standardize_response /\ ~cfg.asymmetric_error
    /\ ~run.standardize_response

\* C5: run_train_step always executes with use_MAP_mode false and the three
\* queries always execute with use_MAP_mode true, whatever the feed dict and
\* the algorithm argument hold.
C5_ModeForced ==
    /\ (run.op = "train" /\ ~run.error) => ~run.use_MAP_mode
    /\ run.op \in Queries => run.use_MAP_mode

\* C5, the claim's case: a query whose feed dict sets the flag
C5_Witness == run.op \in Queries /\ run.feed.use_MAP_mode = "F"

\* C6: within one execution every latent parameter and every output node
\* takes the same decision, posterior mean or sample.
C6_OneDecision ==
    \A a \in DOMAIN run.decision : \A b \in DOMAIN run.decision :
        run.decision[a] = run.decision[b]

\* C6, the claim's case: a sampling execution of a graph with builder and
\* output-model parameters, the flag set by the caller
C6_Witness ==
    /\ run.op = "train" /\ run.feed.use_MAP_mode = "F"
    /\ {<<"y_sd", None>>, <<"intercept", None>>, <<"intercept", rangf[1]>>,
        <<"out", None>>, <<"err", None>>} \subseteq DOMAIN run.decision
    /\ run.decision[<<"y_sd", None>>] = "sample"

SameInput(a, b) ==
    /\ a.op = b.op /\ a.feed = b.feed /\ a.data = b.data /\ a.batch = b.batch
    /\ a.standardize_response = b.standardize_response
    /\ a.algorithm = b.algorithm

\* C7: a query changes no model state, and a query that repeats the query
\* before it, with no train step between, returns the same value.
C7_QueriesPure ==
    [][run'.op \in Queries =>
          /\ UNCHANGED model_state
          /\ SameInput(run, run') => run'.value = run.value]_vars

\* C7, the claim's case: a query after a train step has moved the state
C7_Witness == run.op \in Queries /\ global_batch_step > 0

----------------------------------------------------------------------------
(* Claims about the objective *)

Above(losses, cutoff) == SelectSeq(losses, LAMBDA l : l > cutoff)
NotAbove(losses, cutoff) == SelectSeq(losses, LAMBDA l : ~(l > cutoff))

\* C2: with the filter on and the warm-up over, the reduced (mean) loss of a
\* train step is the mean over the retained examples and n_dropped is the
\* number of examples above the cutoff.
C2_FilteredMean ==
    (run.op = "train" /\ ~run.error /\ run.obj.filtering
        /\ ~cfg.scale_loss_with_data) =>
        LET kept == NotAbove(run.obj.losses, run.obj.loss_cutoff) IN
        /\ run.obj.n_dropped = Len(Above(run.obj.losses, run.obj.loss_cutoff))
        /\ Len(kept) > 0 => run.obj.lik = SumSeq(kept) \div Len(kept)

\* C2, the claim's case: losses [1,1,1,1,100] after the warm-up with
\* loss_ema about 1 and loss_sd_ema about 0, one example dropped
C2_Witness ==
    /\ run.op = "train" /\ ~run.error /\ run.obj.filtering
    /\ ~cfg.scale_loss_with_data
    /\ run.obj.losses =
          <<LossUnit, LossUnit, LossUnit, LossUnit, 100 * LossUnit>>
    /\ run.obj.loss_cutoff > LossUnit /\ run.obj.loss_cutoff < 2 * LossUnit
    /\ run.obj.n_dropped = 1

\* C3: in every train step the values that update loss_ema and loss_sd_ema
\* are computed from the unfiltered per-example losses of the batch.
C3_EmaFromUnfiltered ==
    (run.op = "train" /\ ~run.error /\ graph.has_filter) =>
        /\ run.obj.loss_func = run.obj.losses
        /\ run.obj.loss_mean_cur = SumSeq(run.obj.losses) \div run.obj.n_batch

\* C3, the claim's case: a train step after the warm-up that drops an example
C3_Witness ==
    /\ run.op = "train" /\ ~run.error /\ run.obj.filtering
    /\ run.obj.n_retained < run.obj.n_batch

\* C4: the final loss is the likelihood term plus the sum of the L-p
\* regularizer losses plus the total KL, the total KL being the sum over the
\* entries of kl_penalties of the sum of the entry's elements; reg_loss is
\* the L-p sum plus the total KL; with no regularizer loss and no KL entry
\* reg_loss and kl_loss are 0 and the loss is the likelihood term.
C4_LossDecomposition ==
    (run.op \in {"train", "loss"} /\ ~run.error) =>
        LET lp == SumSeq(regularizer_losses)
            kl == SumSeq([i \in DOMAIN run.obj.kl_values |->
                            SumSeq(run.obj.kl_values[i])])
        IN  /\ Len(run.obj.kl_values) = Len(kl_penalties)
            /\ run.obj.kl_loss = kl
            /\ run.obj.reg_loss = lp + kl
            /\ run.obj.loss = run.obj.lik + lp + kl
            /\ (regularizer_losses = <<>> /\ kl_penalties = <<>>) =>
                  /\ run.obj.reg_loss = 0 /\ run.obj.kl_loss = 0
                  /\ run.obj.loss = run.obj.lik
            /\ run.op = "loss" => run.value = run.obj.loss
            /\ run.op = "train" =>
                  /\ run.value["loss"] = run.obj.loss
                  /\ run.value["reg_loss"] = run.obj.reg_loss

\* C4, the claim's case: a train step of a model with regularizer losses and
\* KL entries of more than one element, the posterior moved
C4_Witness ==
    /\ run.op = "train" /\ ~run.error
    /\ Len(regularizer_losses) >= 2 /\ Len(kl_penalties) >= 2
    /\ \E i \in DOMAIN run.obj.kl_values : Len(run.obj.kl_values[i]) > 1
    /\ run.obj.lik > 0 /\ q_shift > 0

\* C4, its special case: no regularizer loss and no KL entry
C4_WitnessEmpty ==
    /\ run.op = "train" /\ ~run.error
    /\ regularizer_losses = <<>> /\ kl_penalties = <<>> /\ run.obj.lik > 0

----------------------------------------------------------------------------
(* Claims about the builder calls *)

BuilderOps == {"initialize_intercept", "initialize_coefficient",
               "initialize_rnn_h", "initialize_rnn_c", "initialize_h_bias",
               "initialize_irf_l1_biases"}

\* the parameter kinds one call of a builder builds, in order
KindsBuilt(op) ==
    CASE op = "initialize_intercept" -> <<"intercept">>
      [] op = "initialize_coefficient" -> <<"coefficient">>
      [] op = "initialize_rnn_h" -> <<"rnn_h">>
      [] op = "initialize_rnn_c" -> <<"rnn_c">>
      [] op = "initialize_h_bias" -> <<"h_bias">>
      [] op = "initialize_irf_l1_biases" -> <<"irf_l1_W_bias", "irf_l1_b_bias">>
      [] OTHER -> <<>>

Registered(ran_gf) == ran_gf = None \/ ran_gf \in RangfSet

\* C11: a builder call appends to kl_penalties one entry per parameter kind it
\* builds when the prior toggle of its effect type is on, and nothing when it
\* is off; under any of the four toggle combinations the call raises no error.
C11_OneEntryPerDeclaredPrior ==
    [][(run'.op \in BuilderOps /\ Registered(run'.ran_gf)) =>
          LET kinds == KindsBuilt(run'.op)
              added == SubSeq(kl_penalties', Len(kl_penalties) + 1,
                              Len(kl_penalties'))
          IN  /\ ~run'.error /\ phase' = "build"
              /\ SubSeq(kl_penalties', 1, Len(kl_penalties)) = kl_penalties
              /\ IF PriorsDeclared(run'.ran_gf)
                 THEN /\ Len(added) = Len(kinds)
                      /\ \A i \in DOMAIN kinds :
                            /\ added[i].kind = kinds[i]
                            /\ added[i].ran_gf = run'.ran_gf
                 ELSE added = <<>>]_vars

\* C11, the claim's case: the toggles differ, a fixed-effect call has added
\* an entry and a random-effect call has added none
C11_Witness ==
    /\ cfg.declare_priors_fixef /\ ~cfg.declare_priors_ranef
    /\ Len(params) = 2 /\ params[1].ran_gf = None /\ params[2].ran_gf # None
    /\ Len(kl_penalties) = 1
    /\ run.op \in BuilderOps /\ run.ran_gf # None /\ ~run.error

\* C14: a random-effect call of any builder whose ran_gf is not a registered
\* grouping factor is rejected with an error before a variable is created,
\* leaves kl_penalties unchanged, and builds no parameter of a default group.
C14_UnregisteredGroupRejected ==
    [][(run'.op \in BuilderOps /\ ~Registered(run'.ran_gf) /\ phase = "build") =>
          /\ run'.error /\ phase' = "error"
          /\ params' = params
          /\ kl_penalties' = kl_penalties]_vars

\* C14, the claim's case: the second call of a construction names an
\* unregistered grouping factor
C14_Witness ==
    /\ run.op = "initialize_irf_l1_biases" /\ ~Registered(run.ran_gf)
    /\ run.error /\ phase = "error" /\ Len(params) = 1

----------------------------------------------------------------------------
(* Claims about kl_penalties over a model's life *)

\* C12: kl_penalties is append-only: over builder, layer-factory and
\* output-model calls its length never decreases and every earlier entry
\* keeps its position; once initialize_objective has read it to form kl_loss,
\* no train step and no query adds, removes or reorders an entry.
C12_AppendOnly ==
    [][/\ Len(kl_penalties') >= Len(kl_penalties)
       /\ SubSeq(kl_penalties', 1, Len(kl_penalties)) = kl_penalties
       /\ graph.built =>
            /\ graph.kl_terms = kl_penalties
            /\ kl_penalties' = kl_penalties
            /\ graph'.kl_terms = graph.kl_terms]_vars

\* C12, the claim's case: builders, a layer factory and the output model have
\* appended, and a train step has run on the assembled objective
C12_Witness ==
    /\ run.op = "train" /\ ~run.error /\ global_batch_step > 0
    /\ Len(graph.layers) > 0
    /\ \E i, j, k \in DOMAIN kl_penalties :
          /\ i < j /\ j < k
          /\ kl_penalties[i].scope = "model" /\ kl_penalties[i].kind = "intercept"
          /\ kl_penalties[j].scope # "model"
          /\ kl_penalties[k].kind = "y_sd"

\* how often an entry occurs in a list
Count(list, x) == Cardinality({i \in DOMAIN list : list[i] = x})

\* C13: when the objective is assembled, every KL penalty of every layer made
\* by initialize_feedforward or initialize_rnn, one registered after the
\* factory call returned included, is in the model's kl_penalties exactly once.
C13_LayerPenaltiesShared ==
    graph.built =>
        \A i \in DOMAIN graph.layers :
            \A j \in DOMAIN graph.layers[i].kl_penalties :
                Count(graph.kl_terms, graph.layers[i].kl_penalties[j]) = 1

\* C13, the claim's case: a layer registered a penalty after its factory
\* call, and the objective was assembled afterwards
C13_Witness ==
    /\ graph.built
    /\ \E i \in DOMAIN graph.layers :
          /\ graph.layers[i].pending = <<>>
          /\ graph.layers[i].kl_penalties # <<>>
          /\ Count(kl_penalties, graph.layers[i].kl_penalties[1]) = 0

----------------------------------------------------------------------------
(* Claims about objective assembly *)

\* C15: with optim_name None, initialize_objective fails at graph
\* construction: no optimizer and no train_op exist afterwards, the model
\* never becomes ready, and no run_train_step is reached.
C15_NoOptimizerFailsAtConstruction ==
    cfg.optim_name = None =>
        /\ phase \in {"build", "error"}
        /\ ~graph.built /\ ~graph.train_op
        /\ run.op = "none"

\* C15, the claim's case: the objective was assembled up to the optimizer
\* without an optimizer name
C15_Witness ==
    /\ cfg.optim_name = None /\ output_model_completes
    /\ phase = "error" /\ graph.kl_terms # <<>>

----------------------------------------------------------------------------
(* Claims about the output model *)

\* the distributions _initialize_output_model constructed
BoundDists == {a \in DOMAIN graph.output : graph.output[a].type = "dist"}

\* the scale argument is constraint_fn(raw) + epsilon, itself or times y_train_sd
ScaleConstrained(scale) ==
    \/ scale.fn = "constraint_fn"
    \/ scale.base \in DOMAIN graph.output
            /\ graph.output[scale.base].type = "constrained"

\* the scale argument is a tensor that can hold zero
ScaleCanBeZero(scale) ==
    /\ scale.fn = "none"
    /\ graph.output[scale.base].type = "plain"
    /\ cfg.y_sd_init * (IF scale.times_sd THEN cfg.y_train_sd ELSE 1) = 0

\* C16: in every output-model configuration every scale handed to a
\* distribution constructor is constraint_fn(raw) + epsilon, hence strictly
\* positive: no unconstrained and no zero scale reaches a distribution.
C16_ScalesConstrained ==
    \A a \in BoundDists :
        /\ ScaleConstrained(graph.output[a].scale)
        /\ ~ScaleCanBeZero(graph.output[a].scale)

\* _initialize_output_model has run
OutputModelRan == DOMAIN graph.output # {}

\* density over the support grid, theoretical quantiles and CDF at the observed
\* errors, for the error distribution and its summary variant
RequiredDerived ==
    {"err_dist_plot", "err_dist_plot_summary",
     "err_dist_theoretical_quantiles", "err_dist_theoretical_cdf",
     "err_dist_summary_theoretical_quantiles", "err_dist_summary_theoretical_cdf"}

\* the same for the standardized error distribution
RequiredDerivedStandardized ==
    {"err_dist_standardized_theoretical_quantiles",
     "err_dist_standardized_theoretical_cdf",
     "err_dist_standardized_summary_theoretical_quantiles",
     "err_dist_standardized_summary_theoretical_cdf"}

\* C17: in each of the four states {Normal, asymmetric} x {raw, standardized}
\* _initialize_output_model completes and defines every required derived
\* quantity: density, theoretical quantiles and CDF of the error distribution
\* and its summary variant, and with standardization the same for the
\* standardized error distribution.
C17_DerivedQuantitiesDefined ==
    OutputModelRan =>
        /\ output_model_completes
        /\ RequiredDerived \subseteq DOMAIN graph.output
        /\ cfg.standardize_response =>
                RequiredDerivedStandardized \subseteq DOMAIN graph.output

\* the output and error distributions, raw and standardized
OutputDists ==
    {"out_dist", "err_dist", "err_dist_summary", "out_standardized_dist",
     "err_dist_standardized", "err_dist_standardized_dist",
     "err_dist_standardized_summary"}

AsymmetricKinds == {"y_skewness", "y_tailweight"}

\* C18: the output-model state is fixed by the two flags: the y_skewness and
\* y_tailweight posteriors (and, with priors declared, their KL entries) exist
\* iff asymmetric_error is set; the output and error distributions are
\* SinhArcsinh iff asymmetric_error is set and Normal otherwise; the
\* standardized distribution and ll_standardized exist iff
\* standardize_response is set.
C18_StateFixedByFlags ==
    OutputModelRan =>
        /\ \A k \in AsymmetricKinds :
              /\ (\E i \in DOMAIN params : params[i].kind = k) <=> cfg.asymmetric_error
              /\ (\E i \in DOMAIN kl_penalties : kl_penalties[i].kind = k)
                    <=> (cfg.asymmetric_error /\ cfg.declare_priors_fixef)
        /\ {"y_skewness_dist", "y_tailweight_dist"} \subseteq DOMAIN graph.output
              <=> cfg.asymmetric_error
        /\ \A a \in OutputDists \cap DOMAIN graph.output :
              graph.output[a].family =
                  IF cfg.asymmetric_error THEN "SinhArcsinh" ELSE "Normal"
        /\ "out_standardized_dist" \in DOMAIN graph.output
              <=> cfg.standardize_response
        /\ "ll_standardized" \in DOMAIN graph.output <=> cfg.standardize_response

\* the standardized error distribution, under the name its branch bound it to
ErrDistStandardized ==
    IF "err_dist_standardized" \in DOMAIN graph.output
    THEN graph.output["err_dist_standardized"]
    ELSE graph.output["err_dist_standardized_dist"]

\* loc * y_train_sd + y_train_mean of a standardized location
AffineLoc(loc) == [of |-> loc.of, affine |-> TRUE]
\* scale * y_train_sd of a standardized scale
TimesSd(scale) == [scale EXCEPT !.times_sd = TRUE]

SameShape(d, e) == d.skewness = e.skewness /\ d.tailweight = e.tailweight
                        /\ d.family = e.family

\* C19: with standardize_response set, in both families the raw output
\* distribution is the affine image of the standardized one (loc * y_train_sd +
\* y_train_mean, scale * y_train_sd), and the raw error distribution and its
\* summary variant have the standardized scale times y_train_sd, with skewness
\* and tailweight unchanged.
C19_RawIsAffineImage ==
    (OutputModelRan /\ cfg.standardize_response) =>
        LET o == graph.output
            std == o["out_standardized_dist"]
        IN  /\ ~std.loc.affine /\ ~std.scale.times_sd
            /\ o["out_dist"].loc = AffineLoc(std.loc)
            /\ o["out_dist"].scale = TimesSd(std.scale)
            /\ SameShape(o["out_dist"], std)
            /\ ~ErrDistStandardized.scale.times_sd
            /\ ErrDistStandardized.scale = std.scale
            /\ o["err_dist"].scale = TimesSd(ErrDistStandardized.scale)
            /\ SameShape(o["err_dist"], ErrDistStandardized)
            /\ ~o["err_dist_standardized_summary"].scale.times_sd
            /\ o["err_dist_summary"].scale =
                    TimesSd(o["err_dist_standardized_summary"].scale)
            /\ SameShape(o["err_dist_summary"], o["err_dist_standardized_summary"])

\* C19, the claim's case: the standardized and the raw distributions of the
\* asymmetric family were constructed
C19_Witness ==
    /\ cfg.standardize_response
    /\ {"out_standardized_dist", "out_dist", "err_dist", "err_dist_summary"}
            \subseteq DOMAIN graph.output
    /\ graph.output["out_dist"].family = "SinhArcsinh"
    /\ graph.output["out_dist"].skewness = "y_skewness"

\* error distribution |-> the output distribution it accompanies
ErrorDistOf ==
    [err_dist |-> "out_dist", err_dist_summary |-> "out_dist",
     err_dist_standardized |-> "out_standardized_dist",
     err_dist_standardized_dist |-> "out_standardized_dist",
     err_dist_standardized_summary |-> "out_standardized_dist"]

SummaryDists == {"err_dist_summary", "err_dist_standardized_summary"}

\* error value |-> the error distribution it is drawn from
ErrorValueOf ==
    [err |-> {"err_dist"},
     err_standardized |-> {"err_dist_standardized", "err_dist_standardized_dist"}]

\* the median of a Normal is its location
NormalMedianIsZero(d) == d.family = "Normal" /\ d.loc = Loc("zero", FALSE)

\* C20: in every output-model state each error distribution (raw,
\* standardized and their summary variants) has location 0 and the family and
\* scale of the corresponding output distribution, and each error value (err,
\* err_standardized) is the mode-selected mean or sample of that zero-mean
\* error distribution, not of an output distribution; with fixed y_sd in the
\* Normal raw state the median of the error distribution is 0.
C20_ErrorsAreZeroMean ==
    OutputModelRan =>
        LET o == graph.output
        IN  /\ \A e \in DOMAIN ErrorDistOf \cap DOMAIN o :
                  /\ o[e].loc = Loc("zero", FALSE)
                  /\ o[e].family = o[ErrorDistOf[e]].family
                  /\ o[e].scale.times_sd = o[ErrorDistOf[e]].scale.times_sd
                  /\ o[e].scale.base =
                        IF e \in SummaryDists THEN "y_sd_summary"
                        ELSE o[ErrorDistOf[e]].scale.base
            /\ \A v \in DOMAIN ErrorValueOf \cap DOMAIN o :
                  o[v].type = "select" /\ o[v].from \in ErrorValueOf[v]
            /\ (~cfg.y_sd_trainable /\ ~cfg.asymmetric_error
                    /\ ~cfg.standardize_response)
                  => NormalMedianIsZero(o["err_dist"])

----------------------------------------------------------------------------
(* Claims about random-effect shapes *)

\* the number of observed levels of a registered grouping factor
Levels(ran_gf) == rangf_n_levels[CHOOSE i \in DOMAIN rangf : rangf[i] = ran_gf]

\* C21: for every parameter builder and every registered grouping factor with
\* `levels` observed levels, the posterior location and scale variables a
\* random-effect call creates have leading dimension exactly levels - 1.
C21_RanefLeadingDimension ==
    \A i \in DOMAIN params :
        params[i].ran_gf # None =>
            /\ params[i].ran_gf \in RangfSet
            /\ params[i].dim = Levels(params[i].ran_gf) - 1

\* C21, the claim's case: random-effect calls for two grouping factors with
\* different numbers of levels have built their parameters
C21_Witness ==
    /\ Len(params) = 2
    /\ params[1].ran_gf = rangf[1] /\ params[1].dim = 2
    /\ params[2].ran_gf = rangf[2] /\ params[2].dim = 1
    /\ params[2].kind = "coefficient"

----------------------------------------------------------------------------
(* Claims about metadata *)

OwnKeys == Keys(CDRNNBAYES_INITIALIZATION_KWARGS)
RecognizedKeys == OwnKeys \cup Keys(BASE_INITIALIZATION_KWARGS)

\* C22: _unpack_metadata never fails on a saved metadata dict: every
\* recognized CDRNNBayes hyperparameter present in the dict is restored to its
\* saved value, every one missing is set to its declared default, the remaining
\* unrecognized keys are reported as a warning and ignored; unpacking the dict
\* _pack_metadata produced restores every CDRNNBayes hyperparameter.
C22_UnpackRestores ==
    [][/\ run'.op = "_unpack_metadata" =>
            LET md == run'.value.md IN
            /\ ~run'.error /\ phase' = phase
            /\ \A k \in OwnKeys :
                  cfg'[k] = IF k \in DOMAIN md THEN md[k] ELSE DefaultKwargs[k]
            /\ run'.value.stderr = DOMAIN md \ RecognizedKeys
            /\ \A k \in DOMAIN cfg \ RecognizedKeys : cfg'[k] = cfg[k]
       /\ (run.op = "_pack_metadata" /\ run'.op = "_unpack_metadata"
                /\ run'.value.md = run.value.md) =>
            /\ OwnKeys \subseteq DOMAIN run.value.md
            /\ \A k \in OwnKeys : cfg'[k] = cfg[k]]_vars

\* C22, the claim's case: a dict with one hyperparameter saved away from its
\* default, one missing and an unrecognized key has been unpacked
C22_Witness ==
    /\ run.op = "_unpack_metadata"
    /\ DOMAIN run.value.md = {"posterior_to_prior_sd_ratio", "n_iter_legacy"}
    /\ run.value.md["posterior_to_prior_sd_ratio"]
            # DefaultKwargs["posterior_to_prior_sd_ratio"]
    /\ cfg.posterior_to_prior_sd_ratio = run.value.md["posterior_to_prior_sd_ratio"]
    /\ cfg.declare_priors_fixef = DefaultKwargs["declare_priors_fixef"]
    /\ run.value.stderr = {"n_iter_legacy"}

----------------------------------------------------------------------------
(* Claims about the loss filter *)

\* a train step that ran with the filter on and the warm-up over
FilteredStep == run.op = "train" /\ ~run.error /\ run.obj.filtering

NonFinite(losses) == {i \in DOMAIN losses : ~IsFinite(losses[i])}
Below(losses, cutoff) ==
    {i \in DOMAIN losses : IsFinite(losses[i]) /\ losses[i] < cutoff}

\* C23: with the filter on and the warm-up over, an example whose loss is NaN
\* or infinite is suppressed from the reduced loss and counted in n_dropped:
\* the reduced loss of a batch that holds such an example together with
\* finite examples below the cutoff is finite, and no error is raised.
C23_NonFiniteSuppressed ==
    (run.op = "train" /\ run.obj.filtering /\ IsFinite(run.obj.loss_cutoff)
        /\ NonFinite(run.obj.losses) # {}
        /\ Below(run.obj.losses, run.obj.loss_cutoff) # {}) =>
        /\ ~run.error
        /\ run.obj.n_dropped >= Cardinality(NonFinite(run.obj.losses))
        /\ IsFinite(run.obj.lik)
        /\ IsFinite(run.obj.loss)

----------------------------------------------------------------------------
(* Claims about standardization *)

\* run_predict_op de-standardized what sess.run(self.out) returned
Destandardized ==
    run.op = "predict" /\ cfg.standardize_response /\ ~run.standardize_response

\* what sess.run(self.out) returned in the last run
Preds == OutputModel(run.feed, run.data, run.noise).out

----------------------------------------------------------------------------
(* Claims about plotting *)

PlotOps == {"plot_irf", "plot_surface", "plot_qq", "plot_heatmap"}

\* C25: a failure while rendering or saving a plot in plot_irf, plot_surface,
\* plot_qq or plot_heatmap (any exception of the save call, or an unrecognized
\* plot_type in plot_surface) is caught inside the function and logged to
\* stderr; the function returns normally and nothing propagates.
C25_PlotFailuresCaught ==
    (run.op \in PlotOps /\ run.value.failed) =>
        /\ ~run.error /\ run.value.raised = "none"
        /\ run.value.log # <<>>

\* a train step of a model whose objective holds the filter
FilterStep == run.op = "train" /\ ~run.error /\ graph.has_filter

AllFinite(losses) == \A i \in DOMAIN losses : IsFinite(losses[i])

\* the examples of the batch the step removed from the loss
Removed ==
    {i \in DOMAIN run.obj.losses : run.obj.loss_func[i] # run.obj.losses[i]}

\* C26: with the filter on, no example is removed from the loss while the
\* global step is within the warm-up (global_batch_step <= int(2/(1-ema_decay)));
\* after the warm-up an example is removed iff its loss exceeds the cutoff
\* loss_ema + n_sds * loss_sd_ema, so an example exactly at the cutoff is
\* retained.
C26_RemovedIffAboveCutoff ==
    (FilterStep /\ AllFinite(run.obj.losses) /\ IsFinite(run.obj.loss_cutoff)) =>
        IF global_batch_step - 1 <= ema_warm_up
        THEN /\ Removed = {}
             /\ run.obj.n_retained = run.obj.n_batch
        ELSE /\ Removed = {i \in DOMAIN run.obj.losses :
                              run.obj.losses[i] > run.obj.loss_cutoff}
             /\ run.obj.n_retained = run.obj.n_batch - Cardinality(Removed)

----------------------------------------------------------------------------
(* Claims about the running loss statistics *)

\* mean of the losses of a batch
BatchMean(losses) == DivEps(fSum(losses), Len(losses))

\* standard deviation of the losses of a batch
BatchSd(losses) ==
    fSqrt(DivEps(fSum([i \in DOMAIN losses |->
                        fMul(fSub(losses[i], BatchMean(losses)),
                             fSub(losses[i], BatchMean(losses)))]),
                 Len(losses)))

\* the step is a train step of a model whose objective holds the filter
TrainsWithFilter ==
    /\ Ready /\ graph.has_filter
    /\ global_batch_step' # global_batch_step

\* C27: with the filter on, loss_ema and loss_sd_ema start at 0 and keep their
\* values between train steps; each train step raises global_batch_step by one
\* and assigns each tracker once, loss_ema to beta * loss_ema + (1 - beta) *
\* (mean loss of the batch) and loss_sd_ema to beta * loss_sd_ema + (1 - beta)
\* * (standard deviation of the losses of the batch).
C27_TrackersFollowBatch ==
    /\ loss_ema = 0 /\ loss_sd_ema = 0 /\ global_batch_step = 0
    /\ [][IF TrainsWithFilter
          THEN /\ global_batch_step' = global_batch_step + 1
               /\ AllFinite(run'.obj.losses) =>
                    /\ loss_ema' = ema_update(loss_ema, BatchMean(run'.obj.losses))
                    /\ loss_sd_ema' =
                          ema_update(loss_sd_ema, BatchSd(run'.obj.losses))
          ELSE global_batch_step' = global_batch_step =>
                    UNCHANGED <<loss_ema, loss_sd_ema>>]_vars

----------------------------------------------------------------------------
(* Claims about what a train step returns *)

\* run_train_step returned its dict
TrainReturned == run.op = "train" /\ ~run.error

\* C28: for every combination of n_layers_rnn (zero or not), asymmetric_error
\* and loss_filter_n_sds, the dict run_train_step returns maps 'loss' to the
\* value of loss_func and 'reg_loss' to the value of reg_loss, and holds
\* 'n_dropped', mapped to the value of n_dropped, exactly when loss filtering
\* is enabled; no key is paired with the result of another op.
C28_OutDictPairsNamesWithOps ==
    TrainReturned =>
        /\ DOMAIN run.value =
              {"loss", "reg_loss"}
              \cup (IF graph.has_filter THEN {"n_dropped"} ELSE {})
        /\ ("n_dropped" \in DOMAIN run.value) <=> (cfg.loss_filter_n_sds # 0)
        /\ run.value["loss"] = run.obj.loss
        /\ run.value["reg_loss"] = run.obj.reg_loss
        /\ graph.has_filter => run.value["n_dropped"] = run.obj.n_dropped

\* a train step of a model with two RNN layers, asymmetric error and the
\* filter returned the three keys with three different values
C28_Witness ==
    /\ TrainReturned
    /\ cfg.n_layers_rnn = MaxLayers /\ cfg.asymmetric_error /\ graph.has_filter
    /\ run.value["n_dropped"] = run.obj.n_dropped /\ run.obj.n_dropped > 0
    /\ run.value["loss"] = run.obj.loss /\ run.obj.loss > Len(run.obj.losses)
    /\ run.value["reg_loss"] = run.obj.reg_loss

\* a train step of a model without RNN layers, asymmetric error or filter
C28_WitnessPlain ==
    /\ TrainReturned
    /\ cfg.n_layers_rnn = 0 /\ ~cfg.asymmetric_error /\ cfg.loss_filter_n_sds = 0
    /\ DOMAIN run.value = {"loss", "reg_loss"}
    /\ run.value["loss"] = run.obj.loss /\ run.obj.loss > 0

\* the ops of the outlier filter among those a train step fetches
FilterOps == {"loss_ema_op", "loss_sd_ema_op", "n_dropped"}
FetchedFilterOps ==
    {train_to_run[i] : i \in DOMAIN train_to_run} \cap FilterOps

\* C29: every configuration whose initialize_objective completed can run a
\* train step: run_train_step fetches loss_ema_op, loss_sd_ema_op and
\* n_dropped only where initialize_objective created them, also with
\* loss_filter_n_sds set and ema_decay unset, and so raises no error.
C29_TrainStepRuns ==
    (Ready /\ run.op = "train") =>
        /\ FetchedFilterOps # {} => graph.has_filter
        /\ ~run.error

\* C30: in every train step with the filter on, the n_dropped the step reports
\* is the number of examples it excluded from the reduced loss; during the
\* warm-up no example is excluded and n_dropped is 0.
C30_DroppedCountsExcluded ==
    (FilterStep /\ AllFinite(run.obj.losses)) =>
        /\ run.value["n_dropped"] = Cardinality(Removed)
        /\ ~run.obj.filtering =>
              (Removed = {} /\ run.value["n_dropped"] = 0)

====
